---- MODULE Spec2Model ----
(***************************************************************************)
(* Model of the VoiceModeTranscript recorder: the MergeQueue               *)
(* (src/src/llm_processor.py, LLMProcessor), the StreamProcessor           *)
(* (src/src/whisper_stream_processor.py, WhisperStreamProcessor) and the   *)
(* session controller of src/app.py (start/stop requests, auto-flush       *)
(* timer, completion barrier, SSE queue).                                  *)
(*                                                                         *)
(* Threads are modelled by program counters; one action is one step a      *)
(* thread takes between two points where CPython may switch threads and    *)
(* the shared state it touches can be observed by another thread.          *)
(***************************************************************************)
EXTENDS Integers, Sequences, FiniteSets, TLC

\* ------------------------------------------------------------------ bounds
MaxJobs == 2          \* submits (process_transcripts_async calls) per run
MaxSessions == 1      \* session ids / LLMProcessor objects
StreamQueueMax == 3   \* capacity of stream_queue (1000 in app.py:29-31, scaled)
MaxTimers == 2        \* threading.Timer objects created per run
MaxSettings == 1      \* settings updates per run
MaxRecordings == 1    \* recordings started per run of the timer specification
MaxLists == 8         \* list objects created per run
MaxAppends == 3       \* transcripts appended to the accumulators per run
MaxStarts == 2        \* successful start_streaming calls (reader threads) per run
MaxLines == 2         \* output lines read from the recognition subprocesses per run

None == 0             \* Python None for ids
SessionIds == 1 .. MaxSessions
LlmObjs == 1 .. MaxSessions      \* LLMProcessor objects, one per session start
Workers == 1 .. MaxJobs          \* one worker thread per submit
ListIds == 1 .. MaxLists         \* list objects
ProcObjs == 1 .. MaxStarts       \* WhisperStreamProcessor objects
Readers == 1 .. MaxStarts        \* one reader thread per successful start
Reqs == {"req_a", "req_b"}       \* request threads of the server (app.py:2860)

VARIABLES
  \* ---- LLMProcessor objects (src/src/llm_processor.py:40-47)
  processing_queue,   \* [LlmObjs -> Seq(job_data)]
  is_processing,      \* [LlmObjs -> BOOLEAN]
  total_processed,    \* [LlmObjs -> Nat]
  failed_requests,    \* [LlmObjs -> Nat]
  \* ---- worker threads spawned by process_transcripts_async
  next_job,           \* uuid4 of the next job: a fresh number
  wpc,                \* [Workers -> position in _process_queue_worker]
  wjob,               \* [Workers -> local job_data, NoJob while unbound]
  wobj,               \* [Workers -> the LLMProcessor the thread runs on]
  wres,               \* [Workers -> result of process_transcripts_sync]
  submitted,          \* history: job_data in submission order
  cb_log,             \* history: events handed to LLMProcessor.callback, in order
  \* ---- app.py globals
  stream_queue,       \* Seq(event), queue.Queue(maxsize)
  processed_db,       \* rows written by save_processed_transcript
  sessions_waiting_for_summary,
  summary_launches,   \* [SessionIds -> number of generate_session_summary_async calls]
  llm_processor,      \* the global: current LLMProcessor object, or None
  raw_db,             \* rows written by save_raw_transcript
  \* ---- WhisperStreamProcessor objects (whisper_stream_processor.py:39-65)
  proc,               \* [ProcObjs -> record of the object's attributes]
  \* ---- reader threads (_run_whisper_process) and their subprocesses
  next_reader,        \* the next thread started by start_streaming
  rpc,                \* [Readers -> position in _run_whisper_process]
  robj,               \* [Readers -> the processor object the thread runs on]
  pstate,             \* [Readers -> state of the subprocess the thread launched]
  nlines,             \* lines read from the subprocesses so far
  rloc,               \* [Readers -> locals of the thread inside _process_line]
  next_tid,           \* uuid4 of the next transcript: a fresh number
  emitted,            \* history: transcript_data in emission order
  \* ---- a client of one WhisperStreamProcessor (caller of start/stop)
  cpc,                \* "idle", or "join" inside stop_streaming
  ret,                \* what the last call returned
  lists,              \* the list objects behind the accumulators and the jobs
  consumer,           \* the generator event_stream of one /stream request
  timers,             \* the threading.Timer objects of the auto-flush and the
                      \* threads that start and stop them
  \* ---- session controller (app.py globals and its threads)
  recording_state,    \* [is_recording, session_id, start_time]
  auto_processing_state, \* [enabled, timer]
  mic_whisper_processor, \* the global: current microphone processor, or None
  next_session,       \* the next start request that passes the check
  hpc,                \* [Reqs -> position of the request thread in its handler]
  hloc,               \* [Reqs -> local session_id of the handler]
  error_responses,    \* the error responses sent so far (their messages)
  tpc,                \* position of the timer thread in auto_process_transcripts
  tloc,               \* its local accumulated_transcripts
  session_db          \* [SessionIds -> the session's row and metrics in the database,
                      \*  and the summary threads that have run for it]

qvars == <<processing_queue, is_processing, total_processed, failed_requests,
           next_job, wpc, wjob, wobj, wres, submitted, cb_log>>
appvars == <<stream_queue, processed_db, sessions_waiting_for_summary,
             summary_launches, llm_processor, raw_db>>
pvars == <<proc, next_reader, rpc, robj, pstate, nlines, rloc, next_tid, emitted>>
cvars == <<cpc, ret, lists, timers, consumer>>
svars == <<recording_state, auto_processing_state, mic_whisper_processor,
           next_session, hpc, hloc, error_responses, tpc, tloc, session_db>>
vars == <<qvars, appvars, pvars, cvars, svars>>
\* everything a MergeQueue worker never touches directly
nonqvars == <<pvars, cvars, svars>>

\* ------------------------------------------------------------- helpers
\* dict.get(key): the value, or None for a missing key
Get(d, key) == IF key \in DOMAIN d THEN d[key] ELSE None

Range(s) == {s[i] : i \in DOMAIN s}

\* queue.Queue.put(block=False): raises queue.Full at maxsize
QueueFull == Len(stream_queue) >= StreamQueueMax

\* ------------------------------------------------- completion barrier
\* app.py:2684-2690: the jobs get_queue_status() lists for the session, with
\* status queued or processing. get_queue_status (llm_processor.py:314-325)
\* lists the jobs still in processing_queue, each with the status it was
\* given at submission.
get_queue_status(o) ==
  [i \in DOMAIN processing_queue[o] |->
     [job_id |-> processing_queue[o][i].job_id,
      session_id |-> processing_queue[o][i].session_id,
      status |-> processing_queue[o][i].status]]

pending_jobs(sid) ==
  IF llm_processor = None THEN {}
  ELSE {job \in Range(get_queue_status(llm_processor)) :
          job.session_id = sid /\ job.status \in {"queued", "processing"}}

\* app.py:2760-2826 generate_session_summary_async: starts the summary thread
generate_session_summary_async(sid) ==
  summary_launches' = [summary_launches EXCEPT ![sid] = @ + 1]

\* app.py:2674-2708 check_and_generate_summary_if_ready. Nothing happens for
\* a session that is not waiting or that has pending jobs; else the session
\* is removed and the summary launched.
check_and_generate_summary_if_ready(sid) ==
  IF sid \notin sessions_waiting_for_summary
  THEN UNCHANGED <<sessions_waiting_for_summary, summary_launches>>
  ELSE IF pending_jobs(sid) # {}
       THEN UNCHANGED <<sessions_waiting_for_summary, summary_launches>>
       ELSE /\ sessions_waiting_for_summary' = sessions_waiting_for_summary \ {sid}
            /\ generate_session_summary_async(sid)

\* ------------------------------------------------------ LLM callback
\* app.py:89-142 on_llm_result. Every put is non-blocking; queue.Full leaves
\* the handler through the except branch, skipping what follows the put.
SseEvent(ev) == [type |-> ev.type, id |-> ev.job_id]

on_llm_result(ev) ==
  CASE ev.type = "llm_processing_start" ->
         /\ stream_queue' = IF QueueFull THEN stream_queue
                            ELSE Append(stream_queue, SseEvent(ev))
         /\ UNCHANGED <<processed_db, sessions_waiting_for_summary, summary_launches>>
    [] ev.type = "llm_processing_complete" ->
         /\ processed_db' =
              IF ev.result.status = "success"
              THEN processed_db \cup {[job_id |-> ev.job_id,
                                       session_id |-> ev.result.session_id,
                                       ids |-> ev.result.original_transcript_ids]}
              ELSE processed_db
         /\ IF QueueFull
            THEN UNCHANGED <<stream_queue, sessions_waiting_for_summary, summary_launches>>
            ELSE /\ stream_queue' = Append(stream_queue, SseEvent(ev))
                 /\ LET session_id == Get(ev, "session_id")
                    IN IF session_id # None /\ session_id \in sessions_waiting_for_summary
                       THEN check_and_generate_summary_if_ready(session_id)
                       ELSE UNCHANGED <<sessions_waiting_for_summary, summary_launches>>
    [] ev.type = "llm_processing_error" ->
         /\ stream_queue' = IF QueueFull THEN stream_queue
                            ELSE Append(stream_queue, SseEvent(ev))
         /\ UNCHANGED <<processed_db, sessions_waiting_for_summary, summary_launches>>

\* LLMProcessor.callback(event): the event is logged, then handled by the app
Callback(ev) ==
  /\ cb_log' = Append(cb_log, [type |-> ev.type, job_id |-> ev.job_id])
  /\ on_llm_result(ev)

\* ------------------------------------------------------- MergeQueue
\* llm_processor.py:51-86. The job is appended with status "queued" and a new
\* worker thread is started for every call.
process_transcripts_async(o, transcripts, session_id) ==
  LET job_data == [job_id |-> next_job, transcripts |-> transcripts,
                   session_id |-> session_id, status |-> "queued", obj |-> o]
  IN /\ processing_queue' = [processing_queue EXCEPT ![o] = Append(@, job_data)]
     /\ submitted' = Append(submitted, job_data)
     /\ wpc' = [wpc EXCEPT ![next_job] = "while"]
     /\ wobj' = [wobj EXCEPT ![next_job] = o]
     /\ next_job' = next_job + 1

\* job_data of a worker thread that has not popped a job yet (unbound local)
NoJob == [job_id |-> None, transcripts |-> <<>>, session_id |-> None,
          status |-> "queued", obj |-> None]

\* llm_processor.py:88-176: the outcome of the external call is an input
SyncOutcomes == {"success", "error"}

NoResult == [status |-> "none", session_id |-> None, original_transcript_ids |-> <<>>]

process_transcripts_sync_result(transcripts, session_id, outcome) ==
  IF transcripts = <<>>
  THEN [status |-> "none", session_id |-> None, original_transcript_ids |-> <<>>]
  ELSE IF outcome = "success"
       THEN [status |-> "success", session_id |-> session_id,
             original_transcript_ids |-> [i \in DOMAIN transcripts |-> transcripts[i].id]]
       ELSE [status |-> "error", session_id |-> session_id,
             original_transcript_ids |-> <<>>]

\* llm_processor.py:180 while self.processing_queue
W_while(w) ==
  /\ wpc[w] = "while"
  /\ wpc' = [wpc EXCEPT ![w] = IF processing_queue[wobj[w]] = <<>> THEN "exit" ELSE "if"]
  /\ UNCHANGED <<processing_queue, is_processing, total_processed, failed_requests,
                 next_job, wjob, wobj, wres, submitted, cb_log, appvars, nonqvars>>

\* llm_processor.py:181-183 if self.is_processing: sleep; continue
W_if(w) ==
  /\ wpc[w] = "if"
  /\ wpc' = [wpc EXCEPT ![w] = IF is_processing[wobj[w]] THEN "while" ELSE "set"]
  /\ UNCHANGED <<processing_queue, is_processing, total_processed, failed_requests,
                 next_job, wjob, wobj, wres, submitted, cb_log, appvars, nonqvars>>

\* llm_processor.py:185 self.is_processing = True
W_set(w) ==
  /\ wpc[w] = "set"
  /\ is_processing' = [is_processing EXCEPT ![wobj[w]] = TRUE]
  /\ wpc' = [wpc EXCEPT ![w] = "pop"]
  /\ UNCHANGED <<processing_queue, total_processed, failed_requests,
                 next_job, wjob, wobj, wres, submitted, cb_log, appvars, nonqvars>>

\* llm_processor.py:189 job_data = self.processing_queue.pop(0); IndexError
\* on an empty list goes to the except branch
W_pop(w) ==
  /\ wpc[w] = "pop"
  /\ IF processing_queue[wobj[w]] = <<>>
     THEN /\ wpc' = [wpc EXCEPT ![w] = "except"]
          /\ UNCHANGED <<processing_queue, wjob>>
     ELSE /\ wjob' = [wjob EXCEPT ![w] = Head(processing_queue[wobj[w]])]
          /\ processing_queue' = [processing_queue EXCEPT ![wobj[w]] = Tail(@)]
          /\ wpc' = [wpc EXCEPT ![w] = "start"]
  /\ UNCHANGED <<is_processing, total_processed, failed_requests,
                 next_job, wobj, wres, submitted, cb_log, appvars, nonqvars>>

\* llm_processor.py:199-207 callback(llm_processing_start)
W_start(w) ==
  /\ wpc[w] = "start"
  /\ Callback([type |-> "llm_processing_start", job_id |-> wjob[w].job_id,
               session_id |-> wjob[w].session_id])
  /\ wpc' = [wpc EXCEPT ![w] = "call"]
  /\ UNCHANGED <<processing_queue, is_processing, total_processed, failed_requests,
                 next_job, wjob, wobj, wres, submitted, llm_processor, raw_db, nonqvars>>

\* the external call made again after a failure instead of returning the
\* error result
W_call_retries(w) ==
  /\ wpc[w] = "call"
  /\ \E outcome \in SyncOutcomes :
       LET result == process_transcripts_sync_result(wjob[w].transcripts,
                                                     wjob[w].session_id, outcome)
       IN /\ wres' = [wres EXCEPT ![w] = result]
          /\ total_processed' = [total_processed EXCEPT ![wobj[w]] =
                                   IF result.status = "success" THEN @ + 1 ELSE @]
          /\ failed_requests' = [failed_requests EXCEPT ![wobj[w]] =
                                   IF result.status = "error" THEN @ + 1 ELSE @]
          /\ wpc' = [wpc EXCEPT ![w] =
                       IF result.status = "error" /\ failed_requests[wobj[w]] = 0
                       THEN "call" ELSE "complete"]
  /\ UNCHANGED <<processing_queue, is_processing, next_job, wjob, wobj,
                 submitted, cb_log, appvars, nonqvars>>

\* llm_processor.py:210-211 result = self.process_transcripts_sync(...): the
\* external call returns or raises inside; counters as in lines 133 and 156
W_call(w) ==
  /\ wpc[w] = "call"
  /\ \E outcome \in SyncOutcomes :
       LET result == process_transcripts_sync_result(wjob[w].transcripts,
                                                     wjob[w].session_id, outcome)
       IN /\ wres' = [wres EXCEPT ![w] = result]
          /\ total_processed' = [total_processed EXCEPT ![wobj[w]] =
                                   IF result.status = "success" THEN @ + 1 ELSE @]
          /\ failed_requests' = [failed_requests EXCEPT ![wobj[w]] =
                                   IF result.status = "error" THEN @ + 1 ELSE @]
  /\ wpc' = [wpc EXCEPT ![w] = "complete"]
  /\ UNCHANGED <<processing_queue, is_processing, next_job, wjob, wobj,
                 submitted, cb_log, appvars, nonqvars>>

\* llm_processor.py:214-221 callback(llm_processing_complete): the event has
\* the keys type, job_id and result
W_complete(w) ==
  /\ wpc[w] = "complete"
  /\ Callback([type |-> "llm_processing_complete", job_id |-> wjob[w].job_id,
               result |-> wres[w]])
  /\ wpc' = [wpc EXCEPT ![w] = "finally"]
  /\ UNCHANGED <<processing_queue, is_processing, total_processed, failed_requests,
                 next_job, wjob, wobj, wres, submitted, llm_processor, raw_db, nonqvars>>

\* llm_processor.py:223-233 except: job_data.get(...) raises UnboundLocalError
\* when no job was ever popped by this thread; otherwise the error event
\* carries the id of the job the thread popped before
W_except(w) ==
  /\ wpc[w] = "except"
  /\ IF wjob[w].job_id = None
     THEN /\ wpc' = [wpc EXCEPT ![w] = "finally_raise"]
          /\ UNCHANGED <<cb_log, stream_queue, processed_db,
                         sessions_waiting_for_summary, summary_launches>>
     ELSE /\ Callback([type |-> "llm_processing_error", job_id |-> wjob[w].job_id])
          /\ wpc' = [wpc EXCEPT ![w] = "finally"]
  /\ UNCHANGED <<processing_queue, is_processing, total_processed, failed_requests,
                 next_job, wjob, wobj, wres, submitted, llm_processor, raw_db, nonqvars>>

\* the worker leaving the flag set when it is done with a job
W_finally_keeps_flag(w) ==
  /\ wpc[w] \in {"finally", "finally_raise"}
  /\ wpc' = [wpc EXCEPT ![w] = IF wpc[w] = "finally" THEN "while" ELSE "dead"]
  /\ UNCHANGED <<processing_queue, is_processing, total_processed, failed_requests,
                 next_job, wjob, wobj, wres, submitted, cb_log, appvars, nonqvars>>

\* llm_processor.py:234-235 finally: self.is_processing = False
W_finally(w) ==
  /\ wpc[w] \in {"finally", "finally_raise"}
  /\ is_processing' = [is_processing EXCEPT ![wobj[w]] = FALSE]
  /\ wpc' = [wpc EXCEPT ![w] = IF wpc[w] = "finally" THEN "while" ELSE "dead"]
  /\ UNCHANGED <<processing_queue, total_processed, failed_requests,
                 next_job, wjob, wobj, wres, submitted, cb_log, appvars, nonqvars>>

\* llm_processor.py:178-235 _process_queue_worker
process_queue_worker(w) ==
  \/ W_while(w) \/ W_if(w) \/ W_set(w) \/ W_pop(w) \/ W_start(w)
  \/ W_call(w) \/ W_complete(w) \/ W_except(w) \/ W_finally(w)

\* ------------------------------------------------- specification: MergeQueue
\* One LLMProcessor(callback=on_llm_result) and its callers.
\* Every caller submits a non-empty list (app.py:200, 1172, 2729;
\* llm_service.py:26).
TranscriptInputs ==
  {<<[id |-> 1, session_id |-> 1, audio_source |-> "microphone", sequence_number |-> 1]>>}

\* LLMProcessor.__init__ (llm_processor.py:40-47), no thread started yet
InitLlm ==
  /\ processing_queue = [o \in LlmObjs |-> <<>>]
  /\ is_processing = [o \in LlmObjs |-> FALSE]
  /\ total_processed = [o \in LlmObjs |-> 0]
  /\ failed_requests = [o \in LlmObjs |-> 0]
  /\ next_job = 1
  /\ wpc = [w \in Workers |-> "unborn"]
  /\ wjob = [w \in Workers |-> NoJob]
  /\ wobj = [w \in Workers |-> None]
  /\ wres = [w \in Workers |-> NoResult]
  /\ submitted = <<>>
  /\ cb_log = <<>>

\* app.py:28-51 module globals (llm_processor is set by the specification)
InitApp ==
  /\ stream_queue = <<>>
  /\ processed_db = {}
  /\ raw_db = {}
  /\ sessions_waiting_for_summary = {}
  /\ summary_launches = [s \in SessionIds |-> 0]

\* WhisperStreamProcessor.__init__ (whisper_stream_processor.py:39-65)
NewProcessor(source, fixed) ==
  [audio_source |-> source, use_fixed_interval |-> fixed,
   accumulated_transcripts |-> <<>>, transcript_counter |-> 0,
   current_transcription_block |-> <<>>, in_transcription_block |-> FALSE,
   is_running |-> FALSE, session_id |-> None,
   whisper_process |-> None, processing_thread |-> None,
   start_time |-> None, total_transcripts |-> 0, processing_errors |-> 0]

NoLocals == [line |-> "none", text |-> <<>>]

InitReaders ==
  /\ next_reader = 1
  /\ rpc = [r \in Readers |-> "unborn"]
  /\ robj = [r \in Readers |-> None]
  /\ pstate = [r \in Readers |-> "none"]
  /\ nlines = 0
  /\ rloc = [r \in Readers |-> NoLocals]
  /\ next_tid = 1
  /\ emitted = <<>>

\* op and was_running record which call returned and whether is_running was
\* set when it was made; the other fields are the returned value
NoReturn == [op |-> "none", was_running |-> FALSE, ok |-> FALSE, error |-> FALSE,
             total_transcripts |-> 0, accumulated_transcripts |-> 0,
             processing_errors |-> 0]

\* whisper_stream_processor.py:43: each processor's accumulated_transcripts
\* names a list object of its own, empty; no flush is in progress, no job
\* was submitted, no merged list was built
InitLists ==
  [heap |-> [id \in ListIds |-> <<>>],
   next |-> 3,
   acc |-> <<1, 2>>,
   appended |-> 0,
   flush |-> None,
   jobs |-> <<>>,
   merged |-> None]

TimerIds == 1 .. MaxTimers
TimerThreads == {"session", "settings", "tick"}
Intervals == {2, 5}

\* threading.Timer before it is created
NoTimer == [started |-> FALSE, cancelled |-> FALSE, fired |-> FALSE, interval |-> 0]

\* the locals of a thread that is not inside a timer procedure
NoData == [enabled |-> "absent", interval_minutes |-> 0]
NoFrame == [proc |-> "none", interval |-> 0, in_except |-> FALSE, data |-> NoData]

\* app.py:31-42: not recording, auto-flush enabled every 2 minutes, no timer
InitTimers ==
  [is_recording |-> FALSE,
   session_id |-> None,
   recordings |-> 0,
   enabled |-> TRUE,
   interval_minutes |-> 2,
   timer |-> None,
   objs |-> [id \in TimerIds |-> NoTimer],
   next |-> 1,
   pc |-> [th \in TimerThreads |-> "idle"],
   frame |-> [th \in TimerThreads |-> NoFrame],
   updates |-> 0,
   jobs |-> <<>>]

\* app.py:275: a state snapshot goes with every 10th heartbeat
HeartbeatSyncEvery == 10

\* app.py:34 recording_state before any recording
NotRecording == [is_recording |-> FALSE, session_id |-> None, start_time |-> None]

\* app.py:261-262 event_stream: heartbeat_counter = 0, nothing yielded yet.
\* Only heartbeat_counter % 10 is ever read (line 275): the counter is kept
\* modulo 20. yields counts the events yielded, modulo 2.
InitConsumer ==
  [pc |-> "get",
   heartbeat_counter |-> 0,
   state_sync |-> NotRecording,
   seen |-> {},
   yielded |-> [type |-> "none", id |-> None, has_sync |-> FALSE,
                state_sync |-> NotRecording],
   yields |-> 0]

InitClient ==
  /\ cpc = "idle"
  /\ ret = NoReturn
  /\ lists = InitLists
  /\ timers = InitTimers
  /\ consumer = InitConsumer

\* app.py:34-47 module globals; no request is being handled
InitController ==
  /\ recording_state = [is_recording |-> FALSE, session_id |-> None, start_time |-> None]
  /\ auto_processing_state = [enabled |-> TRUE, timer |-> "none",
                              last_processing_time |-> None]
  /\ mic_whisper_processor = None
  /\ next_session = 1
  /\ hpc = [t \in Reqs |-> "idle"]
  /\ hloc = [t \in Reqs |-> None]
  /\ error_responses = {}
  /\ tpc = "idle"
  /\ tloc = <<>>
  /\ session_db = [sid \in SessionIds |->
                     [created |-> FALSE, end_time |-> FALSE, metrics |-> FALSE,
                      summary |-> FALSE, summary_threads |-> 0,
                      summary_result |-> "none"]]

InitQueue ==
  /\ InitLlm /\ InitApp /\ InitReaders /\ InitClient /\ InitController
  /\ llm_processor = 1
  /\ proc = [p \in ProcObjs |-> NewProcessor("microphone", FALSE)]

SubmitJob ==
  /\ next_job <= MaxJobs
  /\ \E transcripts \in TranscriptInputs :
       process_transcripts_async(llm_processor, transcripts, 1)
  /\ UNCHANGED <<is_processing, total_processed, failed_requests, wjob, wres,
                 cb_log, appvars, nonqvars>>

WorkerStep == \E w \in Workers : process_queue_worker(w)

NextQueue == SubmitJob \/ WorkerStep

SpecQueue == InitQueue /\ [][NextQueue]_vars

\* ------------------------------------------------------ claims: MergeQueue
SubmittedTo(o) == SelectSeq(submitted, LAMBDA j : j.obj = o)

StartsOf(o) ==
  SelectSeq(cb_log, LAMBDA e : e.type = "llm_processing_start"
                                /\ submitted[e.job_id].obj = o)

\* A worker between its llm_processing_start event and its terminal event
Processing(w) == wpc[w] \in {"call", "complete"}

\* The external merge call of the worker's job is in progress
InExternalCall(w) == wpc[w] = "call"

\* C1: jobs begin processing (llm_processing_start) in exactly the order in
\* which they were submitted, for every interleaving of submitters and workers.
C1_StartOrderIsSubmissionOrder ==
  \A o \in LlmObjs :
    \A i \in DOMAIN StartsOf(o) :
      StartsOf(o)[i].job_id = SubmittedTo(o)[i].job_id

\* C2: between a job's processing start and its terminal event no other job's
\* external merge call is in progress.
C2_OneJobAtATime ==
  \A w1, w2 \in Workers :
    (w1 # w2 /\ wobj[w1] = wobj[w2] /\ Processing(w1)) => ~InExternalCall(w2)

\* ------------------------------------------------------ StreamProcessor
\* Output lines of the recognition subprocess, by the way _process_line
\* treats them: the block markers, a timestamp-prefixed line with text, any
\* other line of at most 150 characters, a line of more than 150 characters.
Lines == {"START", "END", "TS", "TXT", "LONG"}

\* Further output lines, told apart by their text: timestamp-prefixed lines
\* with another word, with a silence marker only and with no text; a line of
\* 200 characters made of silence and timestamp markers only; a line of four
\* punctuation characters.
ParserLines == Lines \cup {"TS_world", "TS_blank", "TS_none", "LONG_markers", "PUNCT"}

\* whisper_stream_processor.py:335 re.match(timestamp marker, line)
is_timestamp_line(line) == line \in {"TS", "TS_world", "TS_blank", "TS_none"}

\* whisper_stream_processor.py:337: the words after the timestamp marker
text_after_timestamp(line) ==
  CASE line = "TS" -> <<"hello">>
    [] line = "TS_world" -> <<"world">>
    [] line = "TS_blank" -> <<"[BLANK_AUDIO]">>
    [] OTHER -> <<>>

\* the words of a line that is taken as a direct transcript
line_words(line) ==
  IF line = "LONG_markers" THEN <<"[BLANK_AUDIO]", "[0:0]">> ELSE <<line>>

\* _clean_transcript without the substitutions of lines 352-355
clean_transcript_keeps_markers(text) == text

\* whisper_stream_processor.py:346-360 _clean_transcript: timestamp markers
\* and [BLANK_AUDIO] are removed, whitespace is collapsed (a text is kept as
\* the sequence of its words)
clean_transcript(text) ==
  SelectSeq(text, LAMBDA w : w \notin {"[BLANK_AUDIO]", "[0:0]"})

\* whisper_stream_processor.py:333-340: the non-empty texts of the
\* timestamp lines, in order
RECURSIVE transcript_parts(_)
transcript_parts(block_lines) ==
  IF block_lines = <<>> THEN <<>>
  ELSE transcript_parts(SubSeq(block_lines, 1, Len(block_lines) - 1))
         \o (IF is_timestamp_line(block_lines[Len(block_lines)])
             THEN text_after_timestamp(block_lines[Len(block_lines)]) ELSE <<>>)

\* whisper_stream_processor.py:330-344: the parts joined by single spaces,
\* then cleaned
extract_transcript_from_block(block_lines) ==
  clean_transcript(transcript_parts(block_lines))

\* is_transcript_line without the returns of lines 438-474
is_transcript_line_accepts_all(line) == TRUE

\* whisper_stream_processor.py:430-474: only a line longer than 150
\* characters is accepted (every path after line 435 returns False)
is_transcript_line(line) == line \in {"LONG", "LONG_markers"}

\* app.py:54-86 on_whisper_transcript
on_whisper_transcript(ev) ==
  CASE ev.type = "raw_transcript" ->
         /\ raw_db' = raw_db \cup {ev.data.id}
         /\ stream_queue' = IF QueueFull THEN stream_queue
                            ELSE Append(stream_queue, [type |-> "raw_transcript",
                                                       id |-> ev.data.id])
    [] ev.type = "error" ->
         /\ stream_queue' = IF QueueFull THEN stream_queue
                            ELSE Append(stream_queue, [type |-> "whisper_error",
                                                       id |-> ev.session_id])
         /\ UNCHANGED raw_db

\* whisper_stream_processor.py:67-107 start_streaming: what it returns
start_streaming_result(p, files_ok) == ~proc[p].is_running /\ files_ok

\* start_streaming without the is_running test of lines 77-79
start_streaming_no_running_test(p, session_id, files_ok) ==
  IF ~files_ok
  THEN UNCHANGED pvars
  ELSE /\ proc' = [proc EXCEPT ![p] =
                     [@ EXCEPT !.session_id = session_id,
                               !.start_time = next_reader,
                               !.is_running = TRUE,
                               !.accumulated_transcripts = <<>>,
                               !.transcript_counter = 0,
                               !.current_transcription_block = <<>>,
                               !.in_transcription_block = FALSE,
                               !.processing_thread = next_reader]]
       /\ rpc' = [rpc EXCEPT ![next_reader] = "launch"]
       /\ robj' = [robj EXCEPT ![next_reader] = p]
       /\ next_reader' = next_reader + 1
       /\ UNCHANGED <<pstate, nlines, rloc, next_tid, emitted>>

\* whisper_stream_processor.py:67-107 start_streaming: its effect. files_ok
\* says whether the binary and the model exist (lines 82-88).
start_streaming(p, session_id, files_ok) ==
  IF proc[p].is_running \/ ~files_ok
  THEN UNCHANGED pvars
  ELSE /\ proc' = [proc EXCEPT ![p] =
                     [@ EXCEPT !.session_id = session_id,
                               !.start_time = next_reader,
                               !.is_running = TRUE,
                               !.accumulated_transcripts = <<>>,
                               !.transcript_counter = 0,
                               !.current_transcription_block = <<>>,
                               !.in_transcription_block = FALSE,
                               !.processing_thread = next_reader]]
       /\ rpc' = [rpc EXCEPT ![next_reader] = "launch"]
       /\ robj' = [robj EXCEPT ![next_reader] = p]
       /\ next_reader' = next_reader + 1
       /\ UNCHANGED <<pstate, nlines, rloc, next_tid, emitted>>

\* whisper_stream_processor.py:116-117: stop on a processor that is not running
stop_streaming_error == [op |-> "stop", was_running |-> FALSE, ok |-> FALSE,
                         error |-> TRUE, total_transcripts |-> 0,
                         accumulated_transcripts |-> 0, processing_errors |-> 0]

\* whisper_stream_processor.py:119-129: clear the flag, terminate the
\* subprocess if one was launched (terminate, wait, kill on timeout): the
\* processor table and the subprocess states afterwards
stop_streaming_proc(p) == [proc EXCEPT ![p].is_running = FALSE]

stop_streaming_pstate(p) ==
  IF proc[p].whisper_process # None
  THEN [pstate EXCEPT ![proc[p].whisper_process] = "exited"]
  ELSE pstate

stop_streaming_begin(p) ==
  /\ proc' = stop_streaming_proc(p)
  /\ pstate' = stop_streaming_pstate(p)
  /\ UNCHANGED <<next_reader, rpc, robj, nlines, rloc, next_tid, emitted>>

\* stop_streaming without the is_running test of lines 116-117
stop_streaming_no_running_test(p) ==
  /\ stop_streaming_begin(p)
  /\ cpc' = "join"
  /\ UNCHANGED ret

\* whisper_stream_processor.py:109-131 stop_streaming up to the join
stop_streaming(p) ==
  IF ~proc[p].is_running
  THEN /\ ret' = stop_streaming_error
       /\ UNCHANGED <<cpc, pvars>>
  ELSE /\ stop_streaming_begin(p)
       /\ cpc' = "join"
       /\ UNCHANGED ret

\* whisper_stream_processor.py:131-149: after join(timeout=2) has returned
\* (the thread ended or the timeout passed), the statistics
stop_streaming_stats(p) ==
  [op |-> "stop", was_running |-> TRUE, ok |-> TRUE, error |-> FALSE,
   total_transcripts |-> proc[p].total_transcripts,
   accumulated_transcripts |-> Len(proc[p].accumulated_transcripts),
   processing_errors |-> proc[p].processing_errors]

\* whisper_stream_processor.py:210-217 the thread launches the subprocess
R_launch(r) ==
  /\ rpc[r] = "launch"
  /\ \E launched \in BOOLEAN :
       IF launched
       THEN /\ proc' = [proc EXCEPT ![robj[r]].whisper_process = r]
            /\ pstate' = [pstate EXCEPT ![r] = "running"]
            /\ rpc' = [rpc EXCEPT ![r] = "read"]
       ELSE /\ rpc' = [rpc EXCEPT ![r] = "except"]
            /\ UNCHANGED <<proc, pstate>>
  /\ UNCHANGED <<next_reader, robj, nlines, rloc, next_tid, emitted,
                 qvars, appvars, cvars, svars>>

\* whisper_stream_processor.py:243-290 _process_line up to the first
\* statement of _add_transcript_block / _add_direct_transcript that writes
\* (lines 298-299, 483-484): the attributes after the line, and the text to
\* emit (<<>> when the line emits nothing)
EmittedText(pr, line) ==
  IF line = "START" THEN <<>>
  ELSE IF line = "END"
       THEN IF pr.in_transcription_block /\ pr.current_transcription_block # <<>>
            THEN extract_transcript_from_block(pr.current_transcription_block)
            ELSE <<>>
       ELSE IF pr.in_transcription_block THEN <<>>
            ELSE IF pr.use_fixed_interval /\ is_transcript_line(line)
                 THEN clean_transcript(line_words(line)) ELSE <<>>

process_line(pr, line) ==
  IF EmittedText(pr, line) # <<>>
  THEN [pr EXCEPT !.transcript_counter = @ + 1, !.total_transcripts = @ + 1]
  ELSE IF line = "START"
       THEN [pr EXCEPT !.in_transcription_block = TRUE,
                       !.current_transcription_block = <<>>]
       ELSE IF line = "END"
            THEN [pr EXCEPT !.in_transcription_block = FALSE,
                            !.current_transcription_block = <<>>]
            ELSE IF pr.in_transcription_block
                 THEN [pr EXCEPT !.current_transcription_block = Append(@, line)]
                 ELSE pr

\* whisper_stream_processor.py:220-225: readline returns a line or, when the
\* subprocess has ended (by itself or terminated), end of file, which ends
\* the loop; a line ends the loop when is_running is false (whatever it says),
\* else it is processed
R_read(r) ==
  /\ rpc[r] = "read"
  /\ \/ /\ proc[robj[r]].is_running
        /\ nlines < MaxLines
        /\ \E line \in Lines :
             /\ nlines' = nlines + 1
             /\ proc' = [proc EXCEPT ![robj[r]] = process_line(@, line)]
             /\ IF EmittedText(proc[robj[r]], line) # <<>>
                THEN /\ rpc' = [rpc EXCEPT ![r] = "emit"]
                     /\ rloc' = [rloc EXCEPT ![r] =
                          [line |-> line,
                           text |-> EmittedText(proc[robj[r]], line)]]
                ELSE UNCHANGED <<rpc, rloc>>
             /\ UNCHANGED pstate
     \/ /\ ~proc[robj[r]].is_running
        /\ rpc' = [rpc EXCEPT ![r] = "finally"]
        /\ UNCHANGED <<proc, pstate, nlines, rloc>>
     \/ /\ pstate' = [pstate EXCEPT ![r] = "exited"]
        /\ rpc' = [rpc EXCEPT ![r] = "finally"]
        /\ UNCHANGED <<proc, nlines, rloc>>
  /\ UNCHANGED <<next_reader, robj, next_tid, emitted, qvars, appvars, cvars, svars>>

\* whisper_stream_processor.py:302-328 (476-514): build transcript_data from
\* the attributes as they are now, append it, call the callback; for a block,
\* back in _process_line, lines 264-265
R_emit(r) ==
  /\ rpc[r] = "emit"
  /\ LET pr == proc[robj[r]]
         transcript_data == [id |-> next_tid, session_id |-> pr.session_id,
                             text |-> rloc[r].text,
                             sequence_number |-> pr.transcript_counter,
                             audio_source |-> pr.audio_source]
     IN /\ proc' = [proc EXCEPT ![robj[r]] =
                      [@ EXCEPT !.accumulated_transcripts = Append(@, transcript_data),
                                !.in_transcription_block =
                                   IF rloc[r].line = "END" THEN FALSE ELSE @,
                                !.current_transcription_block =
                                   IF rloc[r].line = "END" THEN <<>> ELSE @]]
        /\ emitted' = Append(emitted, transcript_data)
        /\ on_whisper_transcript([type |-> "raw_transcript", data |-> transcript_data])
  /\ next_tid' = next_tid + 1
  /\ rloc' = [rloc EXCEPT ![r] = NoLocals]
  /\ rpc' = [rpc EXCEPT ![r] = "read"]
  /\ UNCHANGED <<next_reader, robj, pstate, nlines, qvars, cvars, svars,
                 processed_db, sessions_waiting_for_summary, summary_launches,
                 llm_processor>>

\* whisper_stream_processor.py:227-239 except: count the error, report it
R_except(r) ==
  /\ rpc[r] = "except"
  /\ proc' = [proc EXCEPT ![robj[r]].processing_errors = @ + 1]
  /\ on_whisper_transcript([type |-> "error", session_id |-> proc[robj[r]].session_id])
  /\ rpc' = [rpc EXCEPT ![r] = "finally"]
  /\ UNCHANGED <<next_reader, robj, pstate, nlines, rloc, next_tid, emitted,
                 qvars, cvars, svars, processed_db, sessions_waiting_for_summary,
                 summary_launches, llm_processor>>

\* whisper_stream_processor.py:240-241 finally: self.is_running = False
R_finally(r) ==
  /\ rpc[r] = "finally"
  /\ proc' = [proc EXCEPT ![robj[r]].is_running = FALSE]
  /\ rpc' = [rpc EXCEPT ![r] = "dead"]
  /\ UNCHANGED <<next_reader, robj, pstate, nlines, rloc, next_tid, emitted,
                 qvars, appvars, cvars, svars>>

\* whisper_stream_processor.py:160-241 _run_whisper_process
run_whisper_process(r) ==
  \/ R_launch(r) \/ R_read(r) \/ R_emit(r) \/ R_except(r) \/ R_finally(r)

\* ------------------------------------------ specification: StreamProcessor
\* One WhisperStreamProcessor(callback=on_whisper_transcript), object 1, in
\* either parsing mode, and one client calling start_streaming and
\* stop_streaming; every start passes a new session id.
TheProc == 1

InitProc ==
  /\ InitLlm /\ InitApp /\ InitReaders /\ InitClient /\ InitController
  /\ llm_processor = None
  /\ \E fixed \in BOOLEAN :
       proc = [p \in ProcObjs |-> NewProcessor("microphone", fixed)]

ClientStart ==
  /\ cpc = "idle"
  /\ next_reader <= MaxStarts
  /\ \E files_ok \in BOOLEAN :
       /\ start_streaming(TheProc, next_reader, files_ok)
       /\ ret' = [NoReturn EXCEPT !.op = "start",
                                  !.was_running = proc[TheProc].is_running,
                                  !.ok = start_streaming_result(TheProc, files_ok)]
  /\ UNCHANGED <<cpc, qvars, appvars, svars, lists, timers, consumer>>

ClientStop ==
  /\ cpc = "idle"
  /\ stop_streaming(TheProc)
  /\ UNCHANGED <<qvars, appvars, svars, lists, timers, consumer>>

\* the join of line 133 without its timeout: the caller waits for the thread
ClientStopReturn_join_without_timeout ==
  /\ cpc = "join"
  /\ \A r \in Readers : rpc[r] \in {"unborn", "dead"}
  /\ ret' = stop_streaming_stats(TheProc)
  /\ cpc' = "idle"
  /\ UNCHANGED <<pvars, qvars, appvars, svars, lists, timers, consumer>>

\* whisper_stream_processor.py:131-149: join(timeout=2) returns when the
\* thread has ended or after two seconds, whatever the thread does; then the
\* statistics are returned
ClientStopReturn ==
  /\ cpc = "join"
  /\ ret' = stop_streaming_stats(TheProc)
  /\ cpc' = "idle"
  /\ UNCHANGED <<pvars, qvars, appvars, svars, lists, timers, consumer>>

ReaderStep == \E r \in Readers : run_whisper_process(r)

NextProc == ClientStart \/ ClientStop \/ ClientStopReturn \/ ReaderStep

SpecProc == InitProc /\ [][NextProc]_vars

\* ------------------------------------------------- claims: StreamProcessor
\* The RawTranscripts emitted with session id sid, in emission order
EmittedIn(sid) == SelectSeq(emitted, LAMBDA t : t.session_id = sid)

\* C7: for every session the sequence_number values of the RawTranscripts of
\* the source's StreamProcessor are 1, 2, 3, ... in emission order.
C7_SequenceNumbersCountFromOne ==
  \A sid \in Readers :
    \A i \in DOMAIN EmittedIn(sid) : EmittedIn(sid)[i].sequence_number = i

\* C8: start_streaming called while the processor is running returns false and
\* leaves every attribute of the processor, its subprocess and its reader
\* threads as before the call.
C8_StartWhileRunningRejected ==
  [][(ClientStart /\ proc[TheProc].is_running)
       => (ret'.ok = FALSE /\ UNCHANGED pvars)]_vars

\* a start was called on a running processor with transcripts accumulated
C8_Witness ==
  /\ ret.op = "start" /\ ret.was_running /\ ~ret.ok
  /\ proc[TheProc].is_running
  /\ proc[TheProc].accumulated_transcripts # <<>>

\* C9: stop_streaming called while the processor is not running returns the
\* error descriptor and leaves the processor (total_transcripts,
\* processing_errors, transcript_counter, accumulated_transcripts and the
\* rest) unchanged, on every such call.
C9_StopWhileNotRunningIsError ==
  [][(ClientStop /\ ~proc[TheProc].is_running)
       => (ret' = stop_streaming_error /\ cpc' = "idle" /\ UNCHANGED pvars)]_vars

\* a stop returned the error descriptor on a processor that had run, counted
\* a transcript and an error, and whose reader thread has ended
C9_Witness ==
  /\ ret = stop_streaming_error
  /\ ~proc[TheProc].is_running
  /\ proc[TheProc].total_transcripts > 0
  /\ proc[TheProc].accumulated_transcripts # <<>>
  /\ \E r \in Readers : rpc[r] = "dead" /\ pstate[r] = "exited"

\* ---------------------------------------------------- session controller
\* whisper_stream_processor.py:151-153 get_accumulated_transcripts: a copy
get_accumulated_transcripts(p) == proc[p].accumulated_transcripts

\* whisper_stream_processor.py:155-158 clear_accumulated_transcripts
clear_accumulated_transcripts(p) == [proc EXCEPT ![p].accumulated_transcripts = <<>>]

\* key=lambda x: x.get("timestamp", ""): the creation time of the transcript,
\* which the id numbers follow where no timestamp is modelled
timestamp(x) == IF "timestamp" \in DOMAIN x THEN x.timestamp ELSE x.id

\* an insertion that puts x before the elements of equal timestamp
RECURSIVE InsertBeforeEqual(_, _)
InsertBeforeEqual(x, sorted) ==
  IF sorted = <<>> THEN <<x>>
  ELSE IF timestamp(x) <= timestamp(Head(sorted)) THEN <<x>> \o sorted
       ELSE <<Head(sorted)>> \o InsertBeforeEqual(x, Tail(sorted))

\* list.sort(key=timestamp), app.py:196 and 2726: the sort is stable, x (which
\* came later in the list) goes behind the elements of equal timestamp
RECURSIVE InsertByTimestamp(_, _)
InsertByTimestamp(x, sorted) ==
  IF sorted = <<>> THEN <<x>>
  ELSE IF timestamp(x) < timestamp(Head(sorted)) THEN <<x>> \o sorted
       ELSE <<Head(sorted)>> \o InsertByTimestamp(x, Tail(sorted))

RECURSIVE SortByTimestamp(_)
SortByTimestamp(list) ==
  IF list = <<>> THEN <<>>
  ELSE InsertByTimestamp(list[Len(list)], SortByTimestamp(SubSeq(list, 1, Len(list) - 1)))

\* stream_queue.put(event, block=False) inside try/except queue.Full
Put(event) == IF QueueFull THEN stream_queue ELSE Append(stream_queue, event)

\* app.py:145-174 start_auto_processing_timer and stop_auto_processing_timer:
\* the timer entry afterwards, given the recording state it sees
start_auto_processing_timer(state) ==
  IF ~auto_processing_state.enabled \/ ~state.is_recording
  THEN auto_processing_state
  ELSE [auto_processing_state EXCEPT !.timer = "armed"]

stop_auto_processing_timer == [auto_processing_state EXCEPT !.timer = "none"]

\* app.py:399-411 POST /api/start: rejected while recording; else the request
\* goes on (device selection, lines 413-598) and will make the session whose
\* id is taken from the clock at line 625
start_recording_check(t) ==
  IF recording_state.is_recording
  THEN /\ error_responses' = error_responses \cup {"Already recording"}
       /\ UNCHANGED <<hpc, hloc, next_session, recording_state, auto_processing_state,
                      mic_whisper_processor, tpc, tloc, session_db,
                      qvars, appvars, pvars, cvars>>
  ELSE /\ next_session <= MaxSessions
       /\ hpc' = [hpc EXCEPT ![t] = "setup"]
       /\ hloc' = [hloc EXCEPT ![t] = next_session]
       /\ next_session' = next_session + 1
       /\ UNCHANGED <<error_responses, recording_state, auto_processing_state,
                      mic_whisper_processor, tpc, tloc, session_db,
                      qvars, appvars, pvars, cvars>>

\* requests are served by the first free request thread
FirstFree(t) == \A u \in Reqs : (hpc[u] = "idle") => (t = "req_a" \/ u # "req_a")

StartRequest(t) ==
  /\ hpc[t] = "idle"
  /\ FirstFree(t)
  /\ start_recording_check(t)

\* app.py:600-705: new processor object p (no system audio device: line 608),
\* new LLMProcessor, recording_state, session row, recording_started event,
\* start_streaming, and either the failure response or the timer
start_recording_setup(t, p, session_id) ==
  LET started == [is_recording |-> TRUE, session_id |-> session_id,
                  start_time |-> session_id]
  IN \E files_ok \in BOOLEAN :
       /\ mic_whisper_processor' = p
       /\ llm_processor' = session_id
       /\ session_db' = [session_db EXCEPT ![session_id].created = TRUE]
       /\ stream_queue' = Put([type |-> "recording_started", id |-> session_id])
       /\ start_streaming(p, session_id, files_ok)
       /\ IF start_streaming_result(p, files_ok)
          THEN /\ recording_state' = started
               /\ auto_processing_state' = start_auto_processing_timer(started)
               /\ UNCHANGED error_responses
          ELSE /\ recording_state' = [started EXCEPT !.is_recording = FALSE]
               /\ UNCHANGED auto_processing_state
               /\ error_responses' = error_responses \cup {"Failed to start"}
       /\ hpc' = [hpc EXCEPT ![t] = "idle"]
       /\ hloc' = [hloc EXCEPT ![t] = None]
       /\ UNCHANGED <<next_session, tpc, tloc, qvars, cvars, processed_db, raw_db,
                      sessions_waiting_for_summary, summary_launches>>

StartSetup(t) ==
  /\ hpc[t] = "setup"
  /\ start_recording_setup(t, hloc[t], hloc[t])

\* the flush of the stop without the clears of app.py:2747-2750
process_remaining_transcripts_without_clear(pr, session_id) ==
  LET accumulated_transcripts ==
        IF mic_whisper_processor # None
        THEN pr[mic_whisper_processor].accumulated_transcripts ELSE <<>>
  IN IF accumulated_transcripts # <<>> /\ llm_processor # None
     THEN /\ next_job <= MaxJobs
          /\ process_transcripts_async(llm_processor,
                                       SortByTimestamp(accumulated_transcripts),
                                       session_id)
          /\ proc' = pr
     ELSE /\ proc' = pr
          /\ UNCHANGED <<processing_queue, submitted, wpc, wobj, next_job>>

\* app.py:2711-2757 process_remaining_transcripts_before_stop, for the
\* processor table pr it finds: snapshot, sort, submit, clear; nothing is
\* submitted for an empty snapshot
process_remaining_transcripts_before_stop(pr, session_id) ==
  LET accumulated_transcripts ==
        IF mic_whisper_processor # None
        THEN pr[mic_whisper_processor].accumulated_transcripts ELSE <<>>
  IN IF accumulated_transcripts # <<>> /\ llm_processor # None
     THEN /\ next_job <= MaxJobs
          /\ process_transcripts_async(llm_processor,
                                       SortByTimestamp(accumulated_transcripts),
                                       session_id)
          /\ proc' = [pr EXCEPT ![mic_whisper_processor].accumulated_transcripts = <<>>]
     ELSE /\ proc' = pr
          /\ UNCHANGED <<processing_queue, submitted, wpc, wobj, next_job>>

\* app.py:726-728, whisper_stream_processor.py:109-149: stop_streaming of the
\* microphone processor as the handler calls it (a processor that is not
\* running is left alone): the processor table and the subprocess states
\* afterwards
StoppedProcessors ==
  IF mic_whisper_processor # None /\ proc[mic_whisper_processor].is_running
  THEN stop_streaming_proc(mic_whisper_processor)
  ELSE proc

StoppedSubprocesses ==
  IF mic_whisper_processor # None /\ proc[mic_whisper_processor].is_running
  THEN stop_streaming_pstate(mic_whisper_processor)
  ELSE pstate

\* app.py:719-720 without the test of is_recording
stop_recording_no_check(t) ==
  /\ hloc' = [hloc EXCEPT ![t] = recording_state.session_id]
  /\ process_remaining_transcripts_before_stop(StoppedProcessors,
                                               recording_state.session_id)
  /\ pstate' = StoppedSubprocesses
  /\ auto_processing_state' = stop_auto_processing_timer
  /\ hpc' = [hpc EXCEPT ![t] = "update"]
  /\ UNCHANGED <<error_responses, recording_state, mic_whisper_processor, next_session,
                 tpc, tloc, session_db, appvars, cvars,
                 is_processing, total_processed, failed_requests, wjob, wres,
                 cb_log, next_reader, rpc, robj, nlines, rloc, next_tid,
                 emitted>>

\* app.py:709-749 POST /api/stop: rejected while not recording; else the
\* session id is read, the processor is stopped, the timer is cancelled and
\* the remaining transcripts are flushed
stop_recording_check(t) ==
  IF ~recording_state.is_recording
  THEN /\ error_responses' = error_responses \cup {"Not currently recording"}
       /\ UNCHANGED <<hpc, hloc, next_session, recording_state, auto_processing_state,
                      mic_whisper_processor, tpc, tloc, session_db,
                      qvars, appvars, pvars, cvars>>
  ELSE /\ hloc' = [hloc EXCEPT ![t] = recording_state.session_id]
       /\ process_remaining_transcripts_before_stop(StoppedProcessors,
                                                    recording_state.session_id)
       /\ pstate' = StoppedSubprocesses
       /\ auto_processing_state' = stop_auto_processing_timer
       /\ hpc' = [hpc EXCEPT ![t] = "update"]
       /\ UNCHANGED <<error_responses, recording_state, mic_whisper_processor, next_session,
                      tpc, tloc, session_db, appvars, cvars,
                      is_processing, total_processed, failed_requests, wjob, wres,
                      cb_log, next_reader, rpc, robj, nlines, rloc, next_tid,
                      emitted>>

StopRequest(t) ==
  /\ hpc[t] = "idle"
  /\ FirstFree(t)
  /\ stop_recording_check(t)

\* app.py:754-797: reset recording_state, recording_stopped event, end time
\* (from the start_time read at line 775, after the reset), metrics, and the
\* session joins sessions_waiting_for_summary
StopUpdate(t) ==
  /\ hpc[t] = "update"
  /\ LET session_id == hloc[t]
         reset == [is_recording |-> FALSE, session_id |-> None, start_time |-> None]
         start_time_str == reset.start_time
     IN /\ recording_state' = reset
        /\ stream_queue' = Put([type |-> "recording_stopped", id |-> session_id])
        /\ session_db' =
             IF session_id \in SessionIds
             THEN [session_db EXCEPT ![session_id].end_time =
                                        IF start_time_str # None THEN TRUE ELSE @,
                                     ![session_id].metrics = TRUE]
             ELSE session_db
        /\ sessions_waiting_for_summary' = sessions_waiting_for_summary \cup {session_id}
  /\ hpc' = [hpc EXCEPT ![t] = "barrier"]
  /\ UNCHANGED <<hloc, error_responses, auto_processing_state, mic_whisper_processor,
                 next_session, tpc, tloc, qvars, pvars, cvars, processed_db, raw_db,
                 summary_launches, llm_processor>>

\* app.py:800-809: check_and_generate_summary_if_ready(session_id), response
StopBarrier(t) ==
  /\ hpc[t] = "barrier"
  /\ check_and_generate_summary_if_ready(hloc[t])
  /\ hpc' = [hpc EXCEPT ![t] = "idle"]
  /\ hloc' = [hloc EXCEPT ![t] = None]
  /\ UNCHANGED error_responses
  /\ UNCHANGED <<recording_state, auto_processing_state, mic_whisper_processor,
                 next_session, tpc, tloc, session_db, qvars, pvars, cvars,
                 stream_queue, processed_db, raw_db, llm_processor>>

\* app.py:177-193: the timer expires and auto_process_transcripts runs on its
\* thread: the tests of line 187, the snapshot, and for an empty snapshot the
\* restart of the timer. One expiry is handled at a time (the interval is
\* minutes, the handler takes milliseconds).
TimerFires ==
  /\ auto_processing_state.timer = "armed"
  /\ tpc = "idle"
  /\ IF ~recording_state.is_recording \/ ~auto_processing_state.enabled
     THEN /\ auto_processing_state' = [auto_processing_state EXCEPT !.timer = "fired"]
          /\ UNCHANGED <<tpc, tloc>>
     ELSE LET accumulated_transcripts ==
                IF mic_whisper_processor # None
                THEN get_accumulated_transcripts(mic_whisper_processor) ELSE <<>>
          IN IF accumulated_transcripts = <<>>
             THEN /\ auto_processing_state' = start_auto_processing_timer(recording_state)
                  /\ UNCHANGED <<tpc, tloc>>
             ELSE /\ auto_processing_state' =
                       [auto_processing_state EXCEPT !.timer = "fired"]
                  /\ tpc' = "submit"
                  /\ tloc' = SortByTimestamp(accumulated_transcripts)
  /\ UNCHANGED <<recording_state, mic_whisper_processor, next_session, hpc, hloc,
                 error_responses, session_db, qvars, appvars, pvars, cvars>>

\* app.py:199-243: submit the snapshot for the session id read now, clear the
\* accumulators, record the time of this flush (the clock reading stands for
\* the job submitted then), auto_processing_triggered event, restart the timer
TimerSubmit ==
  /\ tpc = "submit"
  /\ next_job <= MaxJobs
  /\ process_transcripts_async(llm_processor, tloc, recording_state.session_id)
  /\ proc' = clear_accumulated_transcripts(mic_whisper_processor)
  /\ stream_queue' = Put([type |-> "auto_processing_triggered", id |-> next_job])
  /\ auto_processing_state' =
       [start_auto_processing_timer(recording_state)
          EXCEPT !.last_processing_time = next_job]
  /\ tpc' = "idle"
  /\ tloc' = <<>>
  /\ UNCHANGED <<recording_state, mic_whisper_processor, next_session, hpc, hloc,
                 error_responses, session_db, cvars, processed_db, raw_db,
                 sessions_waiting_for_summary, summary_launches, llm_processor,
                 is_processing, total_processed, failed_requests, wjob, wres, cb_log,
                 next_reader, rpc, robj, pstate, nlines, rloc, next_tid, emitted>>

\* whisper_stream_processor.py:210-225, 476-514: the reader thread of a
\* running processor reads a line of more than 150 characters from its
\* subprocess and emits it (fixed-interval mode), in one piece
ReaderEmits(r) ==
  /\ rpc[r] \in {"launch", "read"}
  /\ proc[robj[r]].is_running
  /\ nlines < MaxLines
  /\ LET pr == process_line(proc[robj[r]], "LONG")
         transcript_data == [id |-> next_tid, session_id |-> pr.session_id,
                             text |-> EmittedText(proc[robj[r]], "LONG"),
                             sequence_number |-> pr.transcript_counter,
                             audio_source |-> pr.audio_source]
     IN /\ proc' = [proc EXCEPT ![robj[r]] =
                      [pr EXCEPT !.whisper_process = r,
                                 !.accumulated_transcripts = Append(@, transcript_data)]]
        /\ emitted' = Append(emitted, transcript_data)
        /\ on_whisper_transcript([type |-> "raw_transcript", data |-> transcript_data])
  /\ nlines' = nlines + 1
  /\ next_tid' = next_tid + 1
  /\ rpc' = [rpc EXCEPT ![r] = "read"]
  /\ pstate' = [pstate EXCEPT ![r] = "running"]
  /\ UNCHANGED <<next_reader, robj, rloc, qvars, cvars, svars,
                 processed_db, sessions_waiting_for_summary, summary_launches,
                 llm_processor>>

\* whisper_stream_processor.py:220-241: the loop ends (end of output, or
\* is_running found false) and the thread leaves through finally
ReaderEnds(r) ==
  /\ rpc[r] \in {"launch", "read"}
  /\ proc' = [proc EXCEPT ![robj[r]].is_running = FALSE]
  /\ rpc' = [rpc EXCEPT ![r] = "dead"]
  /\ pstate' = [pstate EXCEPT ![r] = "exited"]
  /\ UNCHANGED <<next_reader, robj, nlines, rloc, next_tid, emitted,
                 qvars, appvars, cvars, svars>>

\* llm_processor.py:180-207 taken in one piece: the loop test, the
\* is_processing test (a busy flag leaves the thread sleeping), the flag, the
\* pop and the llm_processing_start event
W_begin(w) ==
  /\ wpc[w] = "while"
  /\ IF processing_queue[wobj[w]] = <<>>
     THEN /\ wpc' = [wpc EXCEPT ![w] = "exit"]
          /\ UNCHANGED <<processing_queue, is_processing, wjob, cb_log, stream_queue,
                         processed_db, sessions_waiting_for_summary, summary_launches>>
     ELSE /\ ~is_processing[wobj[w]]
          /\ is_processing' = [is_processing EXCEPT ![wobj[w]] = TRUE]
          /\ wjob' = [wjob EXCEPT ![w] = Head(processing_queue[wobj[w]])]
          /\ processing_queue' = [processing_queue EXCEPT ![wobj[w]] = Tail(@)]
          /\ Callback([type |-> "llm_processing_start",
                       job_id |-> Head(processing_queue[wobj[w]]).job_id,
                       session_id |-> Head(processing_queue[wobj[w]]).session_id])
          /\ wpc' = [wpc EXCEPT ![w] = "call"]
  /\ UNCHANGED <<total_processed, failed_requests, next_job, wobj, wres, submitted,
                 llm_processor, raw_db, nonqvars>>

\* llm_processor.py:210-235 taken in one piece: the external call returns
\* or raises inside process_transcripts_sync (counters of lines 133, 156),
\* the llm_processing_complete event, and the flag is cleared
W_end(w) ==
  /\ wpc[w] = "call"
  /\ \E outcome \in SyncOutcomes :
       LET result == process_transcripts_sync_result(wjob[w].transcripts,
                                                     wjob[w].session_id, outcome)
       IN /\ total_processed' = [total_processed EXCEPT ![wobj[w]] =
                                   IF result.status = "success" THEN @ + 1 ELSE @]
          /\ failed_requests' = [failed_requests EXCEPT ![wobj[w]] =
                                   IF result.status = "error" THEN @ + 1 ELSE @]
          /\ Callback([type |-> "llm_processing_complete", job_id |-> wjob[w].job_id,
                       result |-> result])
  /\ is_processing' = [is_processing EXCEPT ![wobj[w]] = FALSE]
  /\ wpc' = [wpc EXCEPT ![w] = "while"]
  /\ wjob' = [wjob EXCEPT ![w] = NoJob]
  /\ UNCHANGED <<processing_queue, next_job, wobj, wres, submitted,
                 llm_processor, raw_db, nonqvars>>

\* ------------------------------------------------- specification: Session
\* The server with its request threads, the reader thread of each session's
\* microphone processor (fixed-interval mode, no system audio device) and
\* the MergeQueue workers, in runs where the auto-flush timer does not
\* expire. Every start that passes the check gets a new session id (the
\* clock of line 625 has moved on).
InitSession ==
  /\ InitLlm /\ InitApp /\ InitReaders /\ InitClient /\ InitController
  /\ llm_processor = None
  /\ proc = [p \in ProcObjs |-> NewProcessor("microphone", TRUE)]

RequestStep ==
  \E t \in Reqs :
    \/ StartRequest(t) \/ StartSetup(t)
    \/ StopRequest(t) \/ StopUpdate(t) \/ StopBarrier(t)

SessionReaderStep == \E r \in Readers : ReaderEmits(r) \/ ReaderEnds(r)

SessionWorkerStep == \E w \in Workers : W_begin(w) \/ W_end(w)

NextSession == RequestStep \/ SessionReaderStep \/ SessionWorkerStep

SpecSession == InitSession /\ [][NextSession]_vars

\* ------------------------------------------------- specification: AutoFlush
\* The same server in runs where the auto-flush timer expires.
TimerStep == TimerFires \/ TimerSubmit

NextAutoFlush == NextSession \/ TimerStep

SpecAutoFlush == InitSession /\ [][NextAutoFlush]_vars

\* Every thread that can take a step takes one: requests being handled go
\* on and workers run.
FairSession ==
  /\ SpecSession
  /\ \A t \in Reqs : WF_vars(StartSetup(t) \/ StopUpdate(t) \/ StopBarrier(t))
  /\ \A w \in Workers : WF_vars(W_begin(w) \/ W_end(w))

\* --------------------------------------------------------- claims: Session
\* A merge job of session sid is queued, or popped by a worker that has not
\* yet published its terminal event
JobQueuedOrProcessing(sid) ==
  \/ \E o \in LlmObjs : \E i \in DOMAIN processing_queue[o] :
       processing_queue[o][i].session_id = sid
  \/ \E w \in Workers : /\ wpc[w] \in {"start", "call", "complete"}
                        /\ wjob[w].session_id = sid

\* C3: summary generation for a session is never launched while a merge job
\* of that session is queued or being processed.
C3_NoSummaryWhileJobsPending ==
  [][\A sid \in SessionIds :
       summary_launches'[sid] > summary_launches[sid] => ~JobQueuedOrProcessing(sid)]_vars

\* C4: for every session, summary generation is launched at most once.
C4_AtMostOneSummaryPerSession ==
  \A sid \in SessionIds : summary_launches[sid] <= 1

\* C5: a session in the pending-summary set eventually leaves it (its summary
\* is launched once its jobs are terminal).
C5_PendingSessionLeaves ==
  \A sid \in SessionIds :
    (sid \in sessions_waiting_for_summary) ~> (sid \notin sessions_waiting_for_summary)

\* C6: every RawTranscript emitted is still in an accumulator, or in the
\* snapshot of a flush in progress, or in the input of a submitted MergeJob.
C6_NoTranscriptLost ==
  \A i \in DOMAIN emitted :
    \/ \E p \in ProcObjs : emitted[i] \in Range(proc[p].accumulated_transcripts)
    \/ emitted[i] \in Range(tloc)
    \/ \E j \in DOMAIN submitted : emitted[i] \in Range(submitted[j].transcripts)

\* C10: a start request while recording and a stop request while not
\* recording are answered with an error and change nothing else: recording
\* state, processors, timer, pending-summary set, event queue, MergeQueue and
\* database are as before.
C10_RejectedRequestsChangeNothing ==
  [][\A t \in Reqs :
       /\ (StartRequest(t) /\ recording_state.is_recording)
            => /\ "Already recording" \in error_responses'
               /\ UNCHANGED <<qvars, appvars, pvars, cvars, recording_state,
                              auto_processing_state, mic_whisper_processor,
                              next_session, hpc, hloc, tpc, tloc, session_db>>
       /\ (StopRequest(t) /\ ~recording_state.is_recording)
            => /\ "Not currently recording" \in error_responses'
               /\ UNCHANGED <<qvars, appvars, pvars, cvars, recording_state,
                              auto_processing_state, mic_whisper_processor,
                              next_session, hpc, hloc, tpc, tloc, session_db>>]_vars

\* both rejections have happened, the start while a session was recording
\* with a transcript accumulated, and the session is now waiting for its
\* summary with a job pending
C10_Witness ==
  /\ {"Already recording", "Not currently recording"} \subseteq error_responses
  /\ ~recording_state.is_recording
  /\ sessions_waiting_for_summary # {}
  /\ submitted # <<>>
  /\ stream_queue # <<>>

\* ------------------------------------------------- specification: StartRace
\* POST /api/start handled by two request threads whose clock readings of
\* line 625 fall in the same second (one session id), with the reader threads
\* of the processors they start. No request stops a session in these runs.

\* app.py:399-411: the test of is_recording; a request that passes goes on to
\* the device selection of lines 413-598
StartCheck(t) ==
  /\ hpc[t] = "idle"
  /\ FirstFree(t)
  /\ IF recording_state.is_recording
     THEN /\ error_responses' = error_responses \cup {"Already recording"}
          /\ UNCHANGED hpc
     ELSE /\ hpc' = [hpc EXCEPT ![t] = "devices"]
          /\ UNCHANGED error_responses
  /\ UNCHANGED <<hloc, next_session, recording_state, auto_processing_state,
                 mic_whisper_processor, tpc, tloc, session_db,
                 qvars, appvars, pvars, cvars>>

\* app.py:600-706 after the device selection: a new processor object, the
\* session id read from the clock, and the rest of the handler
StartLaunch(t) ==
  /\ hpc[t] = "devices"
  /\ next_reader <= MaxStarts
  /\ start_recording_setup(t, next_reader, next_session)

NextStartRace ==
  \/ \E t \in Reqs : StartCheck(t) \/ StartLaunch(t)
  \/ SessionReaderStep

SpecStartRace == InitSession /\ [][NextStartRace]_vars

\* The processors whose recognition is running
RunningProcessors == {p \in ProcObjs : proc[p].is_running}

\* C11: at most one session is recording at any time, also when two start
\* requests are handled concurrently: two starts never both succeed and leave
\* two processors running.
C11_AtMostOneRecording == Cardinality(RunningProcessors) <= 1

\* ------------------------------------------------- specification: EventBus
\* The bounded SSE queue with its producers, the two callbacks that publish
\* to it, and its consumer, the /stream generator.
MaxEventIds == 2

\* events the StreamProcessor passes to its callback
WhisperEvents ==
  {[type |-> "raw_transcript", data |-> [id |-> i]] : i \in 1..MaxEventIds}
    \cup {[type |-> "error", session_id |-> sid] : sid \in SessionIds}

\* events the MergeQueue worker passes to its callback
LlmEvents ==
  {[type |-> ty, job_id |-> j] : ty \in {"llm_processing_start", "llm_processing_error"},
                                j \in 1..MaxEventIds}

\* app.py:54-86: the StreamProcessor's callback publishes an event
PublishWhisper(ev) ==
  /\ on_whisper_transcript(ev)
  /\ UNCHANGED <<qvars, pvars, cvars, svars, processed_db,
                 sessions_waiting_for_summary, summary_launches, llm_processor>>

\* app.py:89-142: the MergeQueue's callback publishes an event
PublishLlm(ev) ==
  /\ on_llm_result(ev)
  /\ UNCHANGED <<qvars, pvars, cvars, svars, raw_db, llm_processor>>

\* a consumer that takes the newest event
EventStreamGet_takes_newest ==
  /\ stream_queue # <<>>
  /\ stream_queue' = SubSeq(stream_queue, 1, Len(stream_queue) - 1)
  /\ UNCHANGED <<qvars, pvars, cvars, svars, processed_db, raw_db,
                 sessions_waiting_for_summary, summary_launches, llm_processor>>

\* app.py:261-267 event_stream: the consumer takes the oldest event
EventStreamGet ==
  /\ stream_queue # <<>>
  /\ stream_queue' = Tail(stream_queue)
  /\ UNCHANGED <<qvars, pvars, cvars, svars, processed_db, raw_db,
                 sessions_waiting_for_summary, summary_launches, llm_processor>>

PublishStep ==
  \/ \E ev \in WhisperEvents : PublishWhisper(ev)
  \/ \E ev \in LlmEvents : PublishLlm(ev)

NextBus == PublishStep \/ EventStreamGet

SpecBus == InitSession /\ [][NextBus]_vars

\* Every counter the program keeps
Counters ==
  [k \in ({"total_processed", "failed_requests"} \X LlmObjs)
          \cup ({"total_transcripts", "processing_errors", "transcript_counter"} \X ProcObjs) |->
     CASE k[1] = "total_processed" -> total_processed[k[2]]
       [] k[1] = "failed_requests" -> failed_requests[k[2]]
       [] k[1] = "total_transcripts" -> proc[k[2]].total_transcripts
       [] k[1] = "processing_errors" -> proc[k[2]].processing_errors
       [] k[1] = "transcript_counter" -> proc[k[2]].transcript_counter]

\* C12: publishing never raises to the producer; on a full queue the event is
\* dropped, the queue content is unchanged and a drop counter increases by
\* one; on a queue that is not full the event is appended.
C12_PublishDropsAndCounts ==
  [][PublishStep =>
       IF QueueFull
       THEN /\ stream_queue' = stream_queue
            /\ \E k \in DOMAIN Counters : Counters'[k] = Counters[k] + 1
       ELSE /\ Len(stream_queue') = Len(stream_queue) + 1
            /\ SubSeq(stream_queue', 1, Len(stream_queue)) = stream_queue]_vars

\* ------------------------------------------------- specification: Merge
\* The multi-source merge of the accumulators, applied to the buffers of two
\* sources holding transcripts with any timestamps.
MaxBuf == 2
MaxTime == 3

\* the sources in registration order: microphone, then system audio
MergeSources == <<1, 2>>

SourceName(p) == IF p = 1 THEN "microphone" ELSE "system"

\* the accumulators a source can hold: its transcripts in emission order
\* (sequence numbers 1, 2, ...), with any timestamps
Buffers(p) ==
  UNION {{[i \in 1..n |-> [audio_source |-> SourceName(p), sequence_number |-> i,
                           timestamp |-> ts[i]]] : ts \in [1..n -> 1..MaxTime]}
         : n \in 0..MaxBuf}

\* multi_source_whisper_manager.py:133-139, transcript_service.py:105-124,
\* app.py:189-196: extend with every source's accumulator, then sort
RECURSIVE ExtendAll(_)
ExtendAll(sources) ==
  IF sources = <<>> THEN <<>>
  ELSE get_accumulated_transcripts(Head(sources)) \o ExtendAll(Tail(sources))

get_all_accumulated_transcripts == SortByTimestamp(ExtendAll(MergeSources))

InitMerge ==
  /\ InitLlm /\ InitApp /\ InitReaders /\ InitClient /\ InitController
  /\ llm_processor = None
  /\ \E mic \in Buffers(1), system \in Buffers(2) :
       proc = [p \in ProcObjs |->
                 [NewProcessor(SourceName(p), TRUE)
                    EXCEPT !.accumulated_transcripts =
                             IF p = 1 THEN mic ELSE IF p = 2 THEN system ELSE <<>>]]

\* the merged list is taken
MergeGet ==
  /\ tpc = "idle"
  /\ tpc' = "merged"
  /\ tloc' = get_all_accumulated_transcripts
  /\ UNCHANGED <<qvars, appvars, pvars, cvars, recording_state, auto_processing_state,
                 mic_whisper_processor, next_session, hpc, hloc, error_responses,
                 session_db>>

\* the caller drops the merged list
MergeDone ==
  /\ tpc = "merged"
  /\ tpc' = "idle"
  /\ tloc' = <<>>
  /\ UNCHANGED <<qvars, appvars, pvars, cvars, recording_state, auto_processing_state,
                 mic_whisper_processor, next_session, hpc, hloc, error_responses,
                 session_db>>

NextMerge == MergeGet \/ MergeDone

SpecMerge == InitMerge /\ [][NextMerge]_vars

\* position of a source in the registration order
SourceRank(name) == CHOOSE i \in DOMAIN MergeSources : SourceName(MergeSources[i]) = name

\* C13: the merge returns exactly the transcripts of all source buffers, each
\* once, ordered by timestamp non-decreasing; transcripts of equal timestamp
\* are ordered by source-registration order and then by sequence_number.
C13_MergeSortedByTimestamp ==
  tpc = "merged" =>
    /\ Len(tloc) = Len(ExtendAll(MergeSources))
    /\ Range(tloc) = Range(ExtendAll(MergeSources))
    /\ \A i, j \in DOMAIN tloc :
         i < j =>
           \/ tloc[i].timestamp < tloc[j].timestamp
           \/ /\ tloc[i].timestamp = tloc[j].timestamp
              /\ \/ SourceRank(tloc[i].audio_source) < SourceRank(tloc[j].audio_source)
                 \/ /\ tloc[i].audio_source = tloc[j].audio_source
                    /\ tloc[i].sequence_number < tloc[j].sequence_number

\* a merge of two non-empty buffers that had to reorder the transcripts and
\* met equal timestamps in different sources and in one source
C13_Witness ==
  /\ tpc = "merged"
  /\ tloc # ExtendAll(MergeSources)
  /\ \E i, j \in DOMAIN tloc :
       /\ i < j /\ tloc[i].timestamp = tloc[j].timestamp
       /\ tloc[i].audio_source # tloc[j].audio_source
  /\ \E i, j \in DOMAIN tloc :
       /\ i < j /\ tloc[i].timestamp = tloc[j].timestamp
       /\ tloc[i].audio_source = tloc[j].audio_source

\* ------------------------------------------------- specification: Parser
\* The line parser of one running StreamProcessor, in either mode, fed the
\* output lines of its subprocess one after the other by its reader thread.
MaxParse == 4

InitParser ==
  /\ InitLlm /\ InitApp /\ InitReaders /\ InitClient /\ InitController
  /\ llm_processor = None
  /\ \E fixed \in BOOLEAN :
       proc = [p \in ProcObjs |->
                 IF p = TheProc
                 THEN [NewProcessor("microphone", fixed)
                         EXCEPT !.is_running = TRUE, !.session_id = 1]
                 ELSE NewProcessor("microphone", fixed)]

\* whisper_stream_processor.py:243-290 _process_line(line) with the
\* _add_transcript_block / _add_direct_transcript it calls, by one thread
ParseLine(line) ==
  /\ nlines < MaxParse
  /\ nlines' = nlines + 1
  /\ rloc' = [rloc EXCEPT ![TheProc] = [line |-> line,
                                        text |-> EmittedText(proc[TheProc], line)]]
  /\ LET pr == process_line(proc[TheProc], line)
         text == EmittedText(proc[TheProc], line)
         transcript_data == [id |-> next_tid, session_id |-> pr.session_id,
                             text |-> text,
                             sequence_number |-> pr.transcript_counter,
                             audio_source |-> pr.audio_source]
     IN IF text = <<>>
        THEN /\ proc' = [proc EXCEPT ![TheProc] = pr]
             /\ UNCHANGED <<emitted, next_tid, stream_queue, raw_db>>
        ELSE /\ proc' = [proc EXCEPT ![TheProc] =
                           [pr EXCEPT !.accumulated_transcripts = Append(@, transcript_data),
                                      !.in_transcription_block =
                                         IF line = "END" THEN FALSE ELSE @,
                                      !.current_transcription_block =
                                         IF line = "END" THEN <<>> ELSE @]]
             /\ emitted' = Append(emitted, transcript_data)
             /\ next_tid' = next_tid + 1
             /\ on_whisper_transcript([type |-> "raw_transcript", data |-> transcript_data])
  /\ UNCHANGED <<next_reader, rpc, robj, pstate, qvars, cvars, svars,
                 processed_db, sessions_waiting_for_summary, summary_launches,
                 llm_processor>>

NextParser == \E line \in ParserLines : ParseLine(line)

SpecParser == InitParser /\ [][NextParser]_vars

\* the words a block's timestamp-prefixed lines contribute, first line first,
\* without the markers that cleaning strips
RECURSIVE SpokenWords(_)
SpokenWords(lines) ==
  IF lines = <<>> THEN <<>>
  ELSE (CASE Head(lines) = "TS" -> <<"hello">>
          [] Head(lines) = "TS_world" -> <<"world">>
          [] OTHER -> <<>>) \o SpokenWords(Tail(lines))

\* C14: in block mode a start marker, timestamp-prefixed lines and an end
\* marker emit exactly one RawTranscript, at the end marker, whose text is the
\* lines' texts joined in input order; nothing is emitted before the end
\* marker, and nothing at all if the joined, cleaned text is empty.
C14_BlockEmitsOnceAtEnd ==
  [][\A line \in ParserLines :
       (ParseLine(line) /\ ~proc[TheProc].use_fixed_interval) =>
         LET pr == proc[TheProc]
             block == pr.current_transcription_block
         IN /\ line = "START" =>
                 /\ emitted' = emitted
                 /\ proc'[TheProc].in_transcription_block
                 /\ proc'[TheProc].current_transcription_block = <<>>
            /\ (pr.in_transcription_block /\ is_timestamp_line(line)) =>
                 /\ emitted' = emitted
                 /\ proc'[TheProc].in_transcription_block
                 /\ proc'[TheProc].current_transcription_block = Append(block, line)
            /\ (line = "END" /\ pr.in_transcription_block
                  /\ \A i \in DOMAIN block : is_timestamp_line(block[i])) =>
                 IF SpokenWords(block) = <<>>
                 THEN emitted' = emitted
                 ELSE /\ Len(emitted') = Len(emitted) + 1
                      /\ SubSeq(emitted', 1, Len(emitted)) = emitted
                      /\ emitted'[Len(emitted')].text = SpokenWords(block)]_vars

\* the block START, hello, world, END has been parsed in block mode and its
\* one RawTranscript says "hello world"
C14_Witness ==
  /\ ~proc[TheProc].use_fixed_interval
  /\ nlines = 4
  /\ rloc[TheProc].line = "END"
  /\ Len(emitted) = 1
  /\ emitted[1].text = <<"hello", "world">>
  /\ emitted[1].sequence_number = 1

\* the lines of 200 characters, above the threshold of 150
LongLines == {"LONG", "LONG_markers"}

MaxKeywords == 6
RequiredKeywords == 5

\* The text of a response: surrounding whitespace or not, and a body that is
\* plain text (not JSON), a JSON array, or a JSON object with or without a
\* summary field and a keywords field, the latter a list of n strings or a
\* string.
Bodies ==
  {[kind |-> "text"], [kind |-> "array"]}
    \cup {[kind |-> "object", has_summary |-> hs, has_keywords |-> hk,
            keywords_is_list |-> kl, n_keywords |-> n] :
             hs \in BOOLEAN, hk \in BOOLEAN, kl \in BOOLEAN, n \in 0..MaxKeywords}

Contents == [pad : BOOLEAN, body : Bodies]

\* message.content is None
NoContent == [pad |-> FALSE, body |-> [kind |-> "none"]]

\* llm_processor.py:360-372: the call raises (timeout, transport error) or
\* returns a response whose message content is a text or None
CallOutcomes ==
  {[raised |-> TRUE]}
    \cup {[raised |-> FALSE, content |-> c] : c \in Contents \cup {NoContent}}

\* str.strip()
strip(content) == [content EXCEPT !.pad = FALSE]

\* json.loads: the value, or JSONDecodeError
json_loads(content) ==
  IF content.body.kind = "text" THEN [kind |-> "JSONDecodeError"] ELSE content.body

\* llm_processor.py:380-385
valid_summary_format(summary_data) ==
  /\ summary_data.kind = "object"
  /\ summary_data.has_summary
  /\ summary_data.has_keywords

\* the test of line 392 without the count
valid_keywords_any_count(summary_data) == summary_data.keywords_is_list

\* llm_processor.py:392-393
valid_keywords(summary_data) ==
  /\ summary_data.keywords_is_list
  /\ summary_data.n_keywords = RequiredKeywords

\* llm_processor.py:346-430 generate_session_summary, from the outcome of the
\* external call on: the result it returns
generate_session_summary(outcome) ==
  IF outcome.raised THEN [status |-> "error"]
  ELSE IF outcome.content = NoContent THEN [status |-> "error"]
  ELSE LET content == strip(outcome.content)
           summary_data == json_loads(content)
       IN IF /\ summary_data.kind # "JSONDecodeError"
             /\ valid_summary_format(summary_data)
             /\ valid_keywords(summary_data)
          THEN [status |-> "success",
                summary |-> [pad |-> FALSE, body |-> [kind |-> "summary_field"]],
                keywords |-> [i \in 1..summary_data.n_keywords |-> i]]
          ELSE [status |-> "success", summary |-> content, keywords |-> <<>>]

\* a caller gets the result of generate_session_summary
SummaryCall ==
  /\ cpc = "idle"
  /\ \E outcome \in CallOutcomes :
       ret' = [op |-> "generate_session_summary", outcome |-> outcome,
               result |-> generate_session_summary(outcome)]
  /\ UNCHANGED <<cpc, qvars, appvars, pvars, svars, lists, timers, consumer>>

NextSummary == SummaryCall

SpecSummary == InitSession /\ [][NextSummary]_vars

\* the response parses as a JSON object with a summary field and a keywords
\* list of exactly five items
ParsesAsSummary(content) ==
  /\ content.body.kind = "object"
  /\ content.body.has_summary /\ content.body.has_keywords
  /\ content.body.keywords_is_list /\ content.body.n_keywords = 5

LaunchFailed(r) == rpc[r] = "except" /\ pstate[r] = "none"

\* C17: when start cannot launch the recognition subprocess or a dependency
\* is missing, start returns false, no reader thread is spawned and no state
\* changes (is_running stays false, session id, counters, buffers untouched).
C17_FailedStartChangesNothing ==
  \A r \in Readers :
    LaunchFailed(r) =>
      /\ proc[robj[r]].processing_thread # r
      /\ proc[robj[r]].session_id # r
      /\ ~(ret.op = "start" /\ ret.ok)

\* reader r finds the output of its subprocess ended while the processor it
\* was started for is still running its run: no stop has been called
ExitedOnItsOwn(r) ==
  /\ rpc[r] = "finally"
  /\ pstate[r] = "exited"
  /\ proc[robj[r]].is_running
  /\ proc[robj[r]].processing_thread = r

\* the error events of session sid waiting in the SSE queue
ErrorEvents(sid) ==
  SelectSeq(stream_queue, LAMBDA ev : ev.type = "whisper_error" /\ ev.id = sid)

\* C18: when the subprocess exits on its own while the processor is running,
\* the processor becomes not running, exactly one error event is published
\* through the callback, and the subprocess is not restarted.
C18_OwnExitPublishesOneError ==
  [][\A r \in Readers :
       (R_finally(r) /\ ExitedOnItsOwn(r) /\ ~QueueFull) =>
         /\ ~proc'[robj[r]].is_running
         /\ next_reader' = next_reader
         /\ Len(ErrorEvents(proc[robj[r]].session_id)') = 1]_vars

\* ------------------------------------------------- specification: Stop
\* One StreamProcessor and its client as in the StreamProcessor
\* specification, with stop_streaming taken statement by statement: the
\* subprocess may ignore terminate, the reader thread may stay blocked.

\* whisper_stream_processor.py:116-122: the flag is cleared; a processor whose
\* thread has launched no subprocess yet skips the termination
StopBegin ==
  /\ cpc = "idle"
  /\ proc[TheProc].is_running
  /\ proc' = stop_streaming_proc(TheProc)
  /\ cpc' = IF proc[TheProc].whisper_process # None THEN "terminate" ELSE "join"
  /\ UNCHANGED <<ret, next_reader, rpc, robj, pstate, nlines, rloc, next_tid, emitted,
                 qvars, appvars, svars, lists, timers, consumer>>

\* whisper_stream_processor.py:124-125: terminate(), wait(timeout=5): the
\* subprocess has ended within five seconds, or TimeoutExpired is raised
StopTerminate ==
  /\ cpc = "terminate"
  /\ \/ /\ pstate' = [pstate EXCEPT ![proc[TheProc].whisper_process] = "exited"]
        /\ cpc' = "join"
     \/ /\ pstate[proc[TheProc].whisper_process] = "running"
        /\ cpc' = "kill"
        /\ UNCHANGED pstate
  /\ UNCHANGED <<ret, proc, next_reader, rpc, robj, nlines, rloc, next_tid, emitted,
                 qvars, appvars, svars, lists, timers, consumer>>

\* whisper_stream_processor.py:126-127: kill() in the TimeoutExpired handler
StopKill ==
  /\ cpc = "kill"
  /\ pstate' = [pstate EXCEPT ![proc[TheProc].whisper_process] = "killed"]
  /\ cpc' = "join"
  /\ UNCHANGED <<ret, proc, next_reader, rpc, robj, nlines, rloc, next_tid, emitted,
                 qvars, appvars, svars, lists, timers, consumer>>

NextStop ==
  \/ ClientStart
  \/ StopBegin \/ StopTerminate \/ StopKill \/ ClientStopReturn
  \/ ReaderStep

SpecStop == InitProc /\ [][NextStop]_vars

\* The thread that called stop_streaming goes on (every wait of it has a
\* timeout); nothing is assumed of the reader thread and of the subprocess.
FairStop ==
  /\ SpecStop
  /\ WF_vars(StopTerminate) /\ WF_vars(StopKill) /\ WF_vars(ClientStopReturn)

TerminalEvents(job_id) ==
  SelectSeq(cb_log, LAMBDA e : /\ e.job_id = job_id
                               /\ e.type \in {"llm_processing_complete",
                                              "llm_processing_error"})

\* C20: after the external call of a job the worker emits exactly one terminal
\* event: llm_processing_complete if the call succeeded, llm_processing_error
\* if it failed.
C20_TerminalEventMatchesOutcome ==
  \A w \in Workers :
    (wpc[w] = "finally" /\ wres[w].session_id # None) =>
      /\ Len(TerminalEvents(wjob[w].job_id)) = 1
      /\ TerminalEvents(wjob[w].job_id)[1].type =
           IF wres[w].status = "success" THEN "llm_processing_complete"
                                         ELSE "llm_processing_error"

PersistedFor(job_id) == {rec \in processed_db : rec.job_id = job_id}

\* C22: a failed merge job is persisted as a record of the job, once its
\* terminal event has been handled.
C22_FailedJobPersisted ==
  \A w \in Workers :
    (wpc[w] = "finally" /\ wres[w].status = "error"
       /\ Len(TerminalEvents(wjob[w].job_id)) = 1) =>
      PersistedFor(wjob[w].job_id) # {}

\* ------------------------------------------------- Session: the final flush
\* app.py:2717-2728: what the accumulators of the session's sources hold
RemainingTranscripts ==
  IF mic_whisper_processor # None
  THEN get_accumulated_transcripts(mic_whisper_processor) ELSE <<>>

C24_FinalizedBeforeAwaitingSummary ==
  \A sid \in SessionIds :
    (sid \in sessions_waiting_for_summary) => session_db[sid].end_time

\* ------------------------------------------------- specification: EndToEnd
\* The server of the AutoFlush specification together with the summary
\* threads that generate_session_summary_async starts.

\* src/models/repositories.py:11-188: the methods class SessionRepository
\* defines
SessionRepositoryMethods ==
  {"create", "get_all", "get_by_id", "update_metrics", "finalize"}

\* llm_processor.py:327-430: the statuses generate_session_summary returns
SummaryStatuses == {generate_session_summary(outcome).status : outcome \in CallOutcomes}

\* session_service.py:287-356 generate_summary_for_session, given the status
\* of the result generate_session_summary returned to it: the result, and
\* whether the summary was written to the session's row. A call of a method
\* the repository does not define raises AttributeError, which the except
\* branch of line 355 turns into an error result.
generate_summary_for_session(sid, status) ==
  IF {rec \in processed_db : rec.session_id = sid} = {}
  THEN [success |-> FALSE, saved |-> FALSE,
        error |-> "No processed transcripts found for this session"]
  ELSE IF status = "success"
       THEN IF "update_summary" \in SessionRepositoryMethods
            THEN [success |-> TRUE, saved |-> TRUE, error |-> "none"]
            ELSE [success |-> FALSE, saved |-> FALSE, error |-> "AttributeError"]
       ELSE [success |-> FALSE, saved |-> FALSE, error |-> "Summary generation failed"]

\* app.py:2767-2822 _generate_summary, the thread started for session sid:
\* the result of generate_summary_for_session and the event put for it
SummaryThread(sid) ==
  /\ session_db[sid].summary_threads < summary_launches[sid]
  /\ \E status \in SummaryStatuses :
       LET result == generate_summary_for_session(sid, status)
       IN /\ session_db' =
               [session_db EXCEPT ![sid].summary = @ \/ result.saved,
                                  ![sid].summary_threads = @ + 1,
                                  ![sid].summary_result =
                                     IF result.success THEN "success" ELSE result.error]
          /\ stream_queue' = Put([type |-> IF result.success
                                           THEN "session_summary_generated"
                                           ELSE "session_summary_error",
                                  id |-> sid])
  /\ UNCHANGED <<recording_state, auto_processing_state, mic_whisper_processor,
                 next_session, hpc, hloc, error_responses, tpc, tloc,
                 qvars, pvars, cvars, processed_db, sessions_waiting_for_summary,
                 summary_launches, llm_processor, raw_db>>

SummaryStep == \E sid \in SessionIds : SummaryThread(sid)

NextEndToEnd == NextAutoFlush \/ SummaryStep

SpecEndToEnd == InitSession /\ [][NextEndToEnd]_vars

\* C25: when a session has run the scenario (two transcripts emitted, one
\* merge job submitted holding both by an auto-flush tick, the last flush time
\* being that job's, its result persisted, the session stopped, the barrier
\* cleared with one summary launched, the summary thread finished after an
\* external call that returned a summary), one SessionSummary has been
\* generated and recorded for the session.
C25_EndToEndSummaryRecorded ==
  \A sid \in SessionIds :
    (
    /\ Len(SelectSeq(emitted, LAMBDA t : t.session_id = sid)) = 2
    /\ Len(submitted) = 1
    /\ submitted[1].session_id = sid
    /\ Range(submitted[1].transcripts) = Range(emitted)
    /\ auto_processing_state.last_processing_time = submitted[1].job_id
    /\ Cardinality(processed_db) = 1
    /\ \A rec \in processed_db : rec.job_id = submitted[1].job_id
    /\ ~recording_state.is_recording
    /\ \A t \in Reqs : hpc[t] = "idle"
    /\ sid \notin sessions_waiting_for_summary
    /\ summary_launches[sid] = 1
    /\ session_db[sid].summary_threads = 1
    /\ session_db[sid].summary_result
         \notin {"No processed transcripts found for this session",
                 "Summary generation failed"}
    ) =>
      /\ session_db[sid].summary
      /\ session_db[sid].summary_result = "success"

\* ------------------------------------------------- MergeQueue: the stats
\* llm_processor.py:185-235: the worker is inside the stretch in which it
\* holds the busy flag, from setting it to clearing it in finally
HoldsFlag(w) ==
  wpc[w] \in {"pop", "start", "call", "complete", "except", "finally", "finally_raise"}

\* llm_processor.py:189: the jobs of o popped so far, those whose start
\* event was emitted and those about to emit it
PoppedFrom(o) ==
  Len(StartsOf(o)) + Cardinality({w \in Workers : wobj[w] = o /\ wpc[w] = "start"})

\* llm_processor.py:210-221: the external calls of o that have returned,
\* those whose completion event was emitted and those about to emit it
CallsFinished(o) ==
  Len(SelectSeq(cb_log, LAMBDA e : /\ e.type = "llm_processing_complete"
                                   /\ submitted[e.job_id].obj = o))
    + Cardinality({w \in Workers : wobj[w] = o /\ wpc[w] = "complete"})

\* C26: at every point the stats are consistent with the queue's real state:
\* is_processing is true exactly when a worker is handling a job, the queue
\* depth is the number of submitted jobs not yet started, and succeeded plus
\* failed is the number of jobs whose external call has finished.
C26_StatsConsistent ==
  \A o \in LlmObjs :
    /\ is_processing[o] <=> (\E w \in Workers : wobj[w] = o /\ HoldsFlag(w))
    /\ Len(processing_queue[o]) = Len(SubmittedTo(o)) - PoppedFrom(o)
    /\ total_processed[o] + failed_requests[o] = CallsFinished(o)

\* ------------------------------------------------- specification: Pause
\* The server of the Session specification with POST /api/pause and
\* POST /api/resume.

\* whisper_stream_processor.py:21-533: the methods class
\* WhisperStreamProcessor defines
WhisperStreamProcessorMethods ==
  {"__init__", "start_streaming", "stop_streaming", "get_accumulated_transcripts",
   "clear_accumulated_transcripts", "_run_whisper_process", "_process_line",
   "_add_transcript_block", "_extract_transcript_from_block", "_clean_transcript",
   "_is_debug_message", "_is_transcript_line", "_add_direct_transcript", "get_stats"}

\* app.py:815-871 and 874-930, for method pause_streaming or resume_streaming
\* and the event of the handler: rejected while not recording; else the
\* method is called on the microphone processor, and a call of a method the
\* class does not define raises AttributeError, which the handler's except
\* branch answers with status 500; with no processor the event is put and
\* the answer is success
pause_or_resume(method, event) ==
  IF ~recording_state.is_recording
  THEN /\ error_responses' = error_responses \cup {"Not currently recording"}
       /\ UNCHANGED stream_queue
  ELSE IF mic_whisper_processor # None
       THEN /\ method \notin WhisperStreamProcessorMethods
            /\ error_responses' = error_responses \cup {"AttributeError"}
            /\ UNCHANGED stream_queue
       ELSE /\ stream_queue' = Put([type |-> event, id |-> recording_state.session_id])
            /\ UNCHANGED error_responses

PauseRequest(t) ==
  /\ hpc[t] = "idle"
  /\ FirstFree(t)
  /\ pause_or_resume("pause_streaming", "recording_paused")
  /\ UNCHANGED <<recording_state, auto_processing_state, mic_whisper_processor,
                 next_session, hpc, hloc, tpc, tloc, session_db, qvars, pvars, cvars,
                 processed_db, sessions_waiting_for_summary, summary_launches,
                 llm_processor, raw_db>>

ResumeRequest(t) ==
  /\ hpc[t] = "idle"
  /\ FirstFree(t)
  /\ pause_or_resume("resume_streaming", "recording_resumed")
  /\ UNCHANGED <<recording_state, auto_processing_state, mic_whisper_processor,
                 next_session, hpc, hloc, tpc, tloc, session_db, qvars, pvars, cvars,
                 processed_db, sessions_waiting_for_summary, summary_launches,
                 llm_processor, raw_db>>

PauseStep == \E t \in Reqs : PauseRequest(t) \/ ResumeRequest(t)

NextPause == NextSession \/ PauseStep

SpecPause == InitSession /\ [][NextPause]_vars

\* the processor object has a pause state and it says paused
IsPaused(pr) == "is_paused" \in DOMAIN pr /\ pr.is_paused

\* C27: pause on a recording session succeeds and leaves the running
\* processor paused, resume succeeds and leaves it not paused; pause or
\* resume while no session is recording is answered with an error.
C27_PauseResumeSucceedWhileRecording ==
  [][\A t \in Reqs :
       /\ (PauseRequest(t) /\ recording_state.is_recording) =>
            /\ error_responses' = error_responses
            /\ IsPaused(proc'[mic_whisper_processor])
       /\ (ResumeRequest(t) /\ recording_state.is_recording) =>
            /\ error_responses' = error_responses
            /\ ~IsPaused(proc'[mic_whisper_processor])
       /\ ((PauseRequest(t) \/ ResumeRequest(t)) /\ ~recording_state.is_recording) =>
            "Not currently recording" \in error_responses']_vars

\* ------------------------------------------------- EventBus: delivery order
\* C28: events leave the queue in the order in which they were put: every
\* step leaves the queue alone, or puts one event behind all others, or
\* delivers the oldest event and keeps the others in their order; so no event
\* is delivered twice, skipped or overtaken, whichever producers publish.
C28_DeliveredInEnqueueOrder ==
  [][\/ stream_queue' = stream_queue
     \/ /\ Len(stream_queue') = Len(stream_queue) + 1
        /\ SubSeq(stream_queue', 1, Len(stream_queue)) = stream_queue
     \/ /\ stream_queue # <<>>
        /\ EventStreamGet
        /\ stream_queue' = Tail(stream_queue)]_vars

\* events of both producers were published and the consumer has taken the
\* older ones: one event of the MergeQueue is left
C28_Witness ==
  /\ raw_db # {}
  /\ Len(stream_queue) = 1
  /\ stream_queue[1].type = "llm_processing_error"

\* ------------------------------------------------- specification: Snapshot
\* The accumulators of the two sources and the transcript lists of the
\* submitted jobs as Python list objects: lists.heap gives the content of
\* every list object, lists.acc the object each processor's
\* accumulated_transcripts names, lists.jobs the object each job_data names
\* under "transcripts" together with its content at submission.

\* whisper_stream_processor.py:313, 498
\* self.accumulated_transcripts.append(transcript_data), in place
L_append(src) ==
  /\ lists.appended < MaxAppends
  /\ lists' = [lists EXCEPT !.heap[lists.acc[src]] = Append(@, [id |-> lists.appended + 1]),
                            !.appended = @ + 1]

\* the gathering of the snapshot with the caller's list being the first
\* processor's own list object instead of a new one
gather_into_first_buffer(l, new) ==
  [list |-> l.acc[1],
   heap |-> [l.heap EXCEPT ![l.acc[1]] = SortByTimestamp(@ \o l.heap[l.acc[2]])]]

\* app.py:190-211, 2717-2735; transcript_service.py:105-124;
\* multi_source_whisper_manager.py:130-139: a new list object, extended by
\* the copy that each processor's get_accumulated_transcripts returns
\* (whisper_stream_processor.py:151-153), sorted in place: the object and the
\* heap afterwards
gather(l, new) ==
  [list |-> new,
   heap |-> [l.heap EXCEPT ![new] = SortByTimestamp(l.heap[l.acc[1]] \o l.heap[l.acc[2]])]]

\* app.py:190-217, llm_processor.py:69-78: a flush gathers the accumulated
\* transcripts and, unless there are none, submits the list object: job_data
\* names that object
L_flush_submit ==
  /\ lists.flush = None
  /\ lists.next <= MaxLists
  /\ LET g == gather(lists, lists.next)
     IN /\ g.heap[g.list] # <<>>
        /\ lists' = [lists EXCEPT !.heap = g.heap,
                                  !.next = @ + 1,
                                  !.flush = g.list,
                                  !.jobs = Append(@, [list |-> g.list,
                                                      snapshot |-> g.heap[g.list]])]

\* app.py:219-222, whisper_stream_processor.py:155-158: the flush clears the
\* accumulators: self.accumulated_transcripts = [] names a new list object
L_flush_clear ==
  /\ lists.flush # None
  /\ lists.next + 1 <= MaxLists
  /\ lists' = [lists EXCEPT !.acc = <<lists.next, lists.next + 1>>,
                            !.next = @ + 2,
                            !.flush = None]

\* multi_source_whisper_manager.py:116-139, transcript_service.py:105-124:
\* the merged list of all sources is built and returned
L_merge ==
  /\ lists.next <= MaxLists
  /\ LET g == gather(lists, lists.next)
     IN lists' = [lists EXCEPT !.heap = g.heap, !.next = @ + 1, !.merged = g.list]

NextSnapshot ==
  /\ \/ \E src \in {1, 2} : L_append(src)
     \/ L_flush_submit
     \/ L_flush_clear
     \/ L_merge
  /\ UNCHANGED <<cpc, ret, timers, consumer, qvars, appvars, pvars, svars>>

SpecSnapshot == InitSession /\ [][NextSnapshot]_vars

\* what the accumulator of a source holds
Buffer(l, src) == l.heap[l.acc[src]]

\* C29: the transcripts a submitted job holds stay those of its snapshot,
\* whatever is appended to or cleared from the accumulators afterwards, and
\* building the merged list leaves every per-source buffer unchanged.
C29_SnapshotUnaffected ==
  [][/\ \A i \in DOMAIN lists'.jobs :
          lists'.heap[lists'.jobs[i].list] = lists'.jobs[i].snapshot
     /\ (L_merge \/ L_flush_submit) =>
          \A src \in {1, 2} : Buffer(lists', src) = Buffer(lists, src)]_vars

\* a job was submitted, the accumulators were cleared and refilled, and a
\* merged list was built from the refilled accumulators
C29_Witness ==
  /\ lists.jobs # <<>>
  /\ lists.flush = None
  /\ Buffer(lists, 1) # <<>> /\ Buffer(lists, 2) # <<>>
  /\ lists.merged # None
  /\ lists.heap[lists.merged] = SortByTimestamp(Buffer(lists, 1) \o Buffer(lists, 2))
  /\ lists.heap[lists.jobs[1].list] # lists.heap[lists.merged]

\* C30: a tick that fires while recording with auto-flush enabled ends with a
\* new tick scheduled; with empty accumulators it submits nothing, otherwise
\* it submits exactly one merge job holding all accumulated transcripts,
\* leaves the accumulators empty and records the last-flush time. A tick that
\* fires when not recording or when auto-flush is disabled submits nothing
\* and schedules nothing.
C30_TickSubmitsAllAndReschedules ==
  [][/\ (TimerFires /\ recording_state.is_recording /\ auto_processing_state.enabled
           /\ get_accumulated_transcripts(mic_whisper_processor) = <<>>)
          => /\ submitted' = submitted
             /\ auto_processing_state'.timer = "armed"
     /\ (TimerFires /\ ~(recording_state.is_recording /\ auto_processing_state.enabled))
          => /\ submitted' = submitted
             /\ tpc' = "idle"
             /\ auto_processing_state'.timer # "armed"
     /\ TimerSubmit
          => /\ Len(submitted') = Len(submitted) + 1
             /\ submitted'[Len(submitted')].transcripts =
                  SortByTimestamp(get_accumulated_transcripts(mic_whisper_processor))
             /\ proc'[mic_whisper_processor].accumulated_transcripts = <<>>
             /\ auto_processing_state'.last_processing_time
                  = submitted'[Len(submitted')].job_id
             /\ auto_processing_state'.timer = "armed"]_vars

\* ---------------------------------------------------- specification: Timer
\* The auto-flush timer as threading.Timer objects: timers.objs holds every
\* Timer created, timers.timer is auto_processing_state["timer"]. The threads
\* are the handler of /api/start and /api/stop ("session"), the handler of
\* POST /api/auto-processing/settings ("settings") and the thread of an
\* expired Timer running auto_process_transcripts ("tick"); the server runs
\* its handlers on threads of their own (app.py:2860 threaded=True). Every
\* step is one statement of app.py:145-174.

\* threading.Timer: started, neither cancelled nor expired
Pending(obj) == obj.started /\ ~obj.cancelled /\ ~obj.fired

\* the thread returns from its handler
Finish(tm, th) == [tm EXCEPT !.pc[th] = "idle", !.frame[th] = NoFrame]

\* an exception in a timer procedure: auto_process_transcripts catches it and
\* calls start_auto_processing_timer again (app.py:245-248), where a second
\* exception ends the thread; start_recording resets is_recording
\* (app.py:704-706); the other handlers answer 500 (app.py:812-813, 1263-1264)
Raise(tm, th) ==
  IF th = "tick" /\ ~tm.frame[th].in_except
  THEN [tm EXCEPT !.pc[th] = "check",
                  !.frame[th] = [NoFrame EXCEPT !.proc = "start", !.in_except = TRUE]]
  ELSE IF th = "session" /\ tm.frame[th].proc = "start"
       THEN Finish([tm EXCEPT !.is_recording = FALSE], th)
       ELSE Finish(tm, th)

\* the statement after stop_auto_processing_timer has returned: line 155 in
\* start_auto_processing_timer, line 746 in stop_recording, the response in
\* update_auto_processing_settings
AfterStop(tm, th) ==
  IF tm.frame[th].proc = "start" THEN [tm EXCEPT !.pc[th] = "interval"]
  ELSE IF th = "session" THEN [tm EXCEPT !.pc[th] = "reset"]
  ELSE Finish(tm, th)

\* app.py:149-150
P_check(th) ==
  /\ timers.pc[th] = "check"
  /\ timers' = IF ~timers.enabled \/ ~timers.is_recording
               THEN Finish(timers, th)
               ELSE [timers EXCEPT !.pc[th] = "stop_test"]

\* app.py:170
P_stop_test(th) ==
  /\ timers.pc[th] = "stop_test"
  /\ timers' = IF timers.timer # None
               THEN [timers EXCEPT !.pc[th] = "stop_cancel"]
               ELSE AfterStop(timers, th)

\* app.py:171 auto_processing_state["timer"].cancel()
P_stop_cancel(th) ==
  /\ timers.pc[th] = "stop_cancel"
  /\ timers' = IF timers.timer = None
               THEN Raise(timers, th)   \* AttributeError
               ELSE [timers EXCEPT !.objs[timers.timer].cancelled = TRUE,
                                   !.pc[th] = "stop_clear"]

\* app.py:172 auto_processing_state["timer"] = None
P_stop_clear(th) ==
  /\ timers.pc[th] = "stop_clear"
  /\ timers' = AfterStop([timers EXCEPT !.timer = None], th)

\* app.py:155 interval_seconds = auto_processing_state["interval_minutes"] * 60
P_interval(th) ==
  /\ timers.pc[th] = "interval"
  /\ timers' = [timers EXCEPT !.frame[th].interval = timers.interval_minutes,
                              !.pc[th] = "create"]

\* app.py:156-158 auto_processing_state["timer"] = threading.Timer(...)
P_create(th) ==
  /\ timers.pc[th] = "create"
  /\ timers.next <= MaxTimers
  /\ timers' = [timers EXCEPT !.objs[timers.next] =
                                  [NoTimer EXCEPT !.interval = timers.frame[th].interval],
                              !.timer = timers.next,
                              !.next = @ + 1,
                              !.pc[th] = "daemon"]

\* app.py:159 auto_processing_state["timer"].daemon = True; threading.Thread
\* refuses it on a started thread
P_daemon(th) ==
  /\ timers.pc[th] = "daemon"
  /\ timers' = IF timers.timer = None THEN Raise(timers, th)   \* AttributeError
               ELSE IF timers.objs[timers.timer].started
                    THEN Raise(timers, th)   \* RuntimeError
                    ELSE [timers EXCEPT !.pc[th] = "start"]

\* app.py:160 auto_processing_state["timer"].start(); a thread can be started
\* once only; a Timer cancelled before its start never calls its function
P_start(th) ==
  /\ timers.pc[th] = "start"
  /\ timers' = IF timers.timer = None THEN Raise(timers, th)   \* AttributeError
               ELSE IF timers.objs[timers.timer].started
                    THEN Raise(timers, th)   \* RuntimeError
                    ELSE Finish([timers EXCEPT !.objs[timers.timer].started = TRUE], th)

\* app.py:627-633 start_recording: recording_state.update(is_recording True,
\* session id)
SessionStart ==
  /\ timers.pc["session"] = "idle"
  /\ ~timers.is_recording
  /\ timers.recordings < MaxRecordings
  /\ timers' = [timers EXCEPT !.is_recording = TRUE,
                              !.session_id = timers.recordings + 1,
                              !.recordings = @ + 1,
                              !.pc["session"] = "start_test",
                              !.frame["session"] = [NoFrame EXCEPT !.proc = "start"]]

\* app.py:691-693 if auto_processing_state["enabled"]: start_auto_processing_timer()
SessionStartTest ==
  /\ timers.pc["session"] = "start_test"
  /\ timers' = IF timers.enabled
               THEN [timers EXCEPT !.pc["session"] = "check"]
               ELSE Finish(timers, "session")

\* app.py:722-744 stop_recording up to its call of stop_auto_processing_timer
SessionStop ==
  /\ timers.pc["session"] = "idle"
  /\ timers.is_recording
  /\ timers' = [timers EXCEPT !.pc["session"] = "stop_test",
                              !.frame["session"] = [NoFrame EXCEPT !.proc = "stop"]]

\* app.py:754-756 recording_state.update(is_recording False, session_id None)
SessionReset ==
  /\ timers.pc["session"] = "reset"
  /\ timers' = Finish([timers EXCEPT !.is_recording = FALSE, !.session_id = None],
                      "session")

\* the bodies of POST /api/auto-processing/settings: "enabled" alone or a
\* valid "interval_minutes" alone
SettingsData ==
  {[enabled |-> e, interval_minutes |-> 0] : e \in {"true", "false"}}
    \cup {[enabled |-> "absent", interval_minutes |-> i] : i \in Intervals}

\* app.py:1228-1231: if "enabled" in data: enabled = bool(data["enabled"])
SettingsBegin(data) ==
  /\ timers.pc["settings"] = "idle"
  /\ timers.updates < MaxSettings
  /\ timers' = [timers EXCEPT !.enabled = IF data.enabled = "absent" THEN @
                                          ELSE data.enabled = "true",
                              !.updates = @ + 1,
                              !.pc["settings"] = "interval_set",
                              !.frame["settings"] = [NoFrame EXCEPT !.data = data]]

\* app.py:1233-1236: a valid interval is stored
SettingsInterval ==
  /\ timers.pc["settings"] = "interval_set"
  /\ timers' = [timers EXCEPT !.interval_minutes =
                                  IF timers.frame["settings"].data.interval_minutes = 0
                                  THEN @
                                  ELSE timers.frame["settings"].data.interval_minutes,
                              !.frame["settings"].data = NoData,
                              !.pc["settings"] = "restart"]

\* app.py:1242-1247: while recording, start the timer again if enabled, stop
\* it otherwise
SettingsRestart ==
  /\ timers.pc["settings"] = "restart"
  /\ timers' = IF ~timers.is_recording THEN Finish(timers, "settings")
               ELSE IF timers.enabled
                    THEN [timers EXCEPT !.pc["settings"] = "check",
                                        !.frame["settings"].proc = "start"]
                    ELSE [timers EXCEPT !.pc["settings"] = "stop_test",
                                        !.frame["settings"].proc = "stop"]

\* threading.Timer.run: the interval of a pending Timer has passed and its
\* thread calls auto_process_transcripts; one expiry is handled at a time
TimerExpires(id) ==
  /\ timers.pc["tick"] = "idle"
  /\ Pending(timers.objs[id])
  /\ timers' = [timers EXCEPT !.objs[id].fired = TRUE,
                              !.pc["tick"] = "tick_test",
                              !.frame["tick"] = [NoFrame EXCEPT !.proc = "start"]]

\* app.py:186-204: the test of line 186 and the snapshot, empty or not
TickTest ==
  /\ timers.pc["tick"] = "tick_test"
  /\ \/ /\ (~timers.is_recording \/ ~timers.enabled)
        /\ timers' = Finish(timers, "tick")
     \/ /\ timers.is_recording /\ timers.enabled
        /\ \E empty \in BOOLEAN :
             timers' = [timers EXCEPT !.pc["tick"] =
                                         IF empty THEN "check" ELSE "tick_submit"]

\* app.py:213-217: the job is submitted for the session id read now
TickSubmit ==
  /\ timers.pc["tick"] = "tick_submit"
  /\ timers' = [timers EXCEPT !.jobs = Append(@, [session_id |-> timers.session_id,
                                                  enabled |-> timers.enabled]),
                              !.pc["tick"] = "check"]

NextTimer ==
  /\ \/ \E th \in TimerThreads :
          \/ P_check(th)
          \/ P_stop_test(th)
          \/ P_stop_cancel(th)
          \/ P_stop_clear(th)
          \/ P_interval(th)
          \/ P_create(th)
          \/ P_daemon(th)
          \/ P_start(th)
     \/ SessionStart
     \/ SessionStartTest
     \/ SessionStop
     \/ SessionReset
     \/ \E data \in SettingsData : SettingsBegin(data)
     \/ SettingsInterval
     \/ SettingsRestart
     \/ \E id \in TimerIds : TimerExpires(id)
     \/ TickTest
     \/ TickSubmit
  /\ UNCHANGED <<cpc, ret, lists, consumer, qvars, appvars, pvars, svars>>

SpecTimer == InitSession /\ [][NextTimer]_vars


\* C31: once a settings update that disabled auto-flush has returned, no tick
\* fires and no auto-flush job is submitted while it stays disabled; once a
\* settings update has returned, every pending tick uses the interval in
\* force.
C31_SettingsCancelPendingTick ==
  [][/\ (~timers.enabled /\ timers.pc["settings"] = "idle")
          => /\ \A id \in TimerIds : ~TimerExpires(id)
             /\ timers'.jobs = timers.jobs
     /\ (timers'.updates > 0 /\ timers'.pc["settings"] = "idle")
          => \A id \in TimerIds :
               Pending(timers'.objs[id])
                 => timers'.objs[id].interval = timers'.interval_minutes]_vars

\* C32: once a session stop has completed (recording state reset, handler
\* returned), no auto-flush timer is pending and no tick submits a merge job.
C32_NoTimerAfterStop ==
  [][/\ (timers'.recordings > 0 /\ timers'.session_id = None
           /\ timers'.pc["session"] = "idle")
          => \A id \in TimerIds : ~Pending(timers'.objs[id])
     /\ (timers.recordings > 0 /\ timers.session_id = None
           /\ timers.pc["session"] = "idle")
          => timers'.jobs = timers.jobs]_vars

\* C40: at any time at most one auto-flush timer is pending, and a pending
\* timer is the one recorded in auto_processing_state.
C40_AtMostOnePendingTimer ==
  /\ Cardinality({id \in TimerIds : Pending(timers.objs[id])}) <= 1
  /\ \A id \in TimerIds : Pending(timers.objs[id]) => timers.timer = id

\* ---------------------------------------------------- specification: Flush
\* The session with its auto-flush ticks and with POST /api/process-llm, the
\* manual flush, served by the request threads.

\* app.py:1151-1155: the session id of the request body; the request is
\* answered 400 without one. The caller may name any session.
CallerSessionIds == 1 .. MaxSessions + 1

\* app.py:1146-1181 process_llm: the accumulated transcripts are read, sorted
\* and submitted for the session id of the caller; 400 and no change without
\* a processor or without transcripts
ManualFlush(t, session_id) ==
  /\ hpc[t] = "idle"
  /\ FirstFree(t)
  /\ mic_whisper_processor # None
  /\ llm_processor # None
  /\ get_accumulated_transcripts(mic_whisper_processor) # <<>>
  /\ next_job <= MaxJobs
  /\ process_transcripts_async(llm_processor,
                               SortByTimestamp(get_accumulated_transcripts(mic_whisper_processor)),
                               session_id)
  /\ hpc' = [hpc EXCEPT ![t] = "flush_clear"]
  /\ UNCHANGED <<hloc, error_responses, recording_state, auto_processing_state,
                 mic_whisper_processor, next_session, tpc, tloc, session_db,
                 appvars, pvars, cvars, is_processing, total_processed,
                 failed_requests, wjob, wres, cb_log>>

\* app.py:1183-1196 process_llm: clear the accumulators, answer
ManualClear(t) ==
  /\ hpc[t] = "flush_clear"
  /\ proc' = clear_accumulated_transcripts(mic_whisper_processor)
  /\ hpc' = [hpc EXCEPT ![t] = "idle"]
  /\ UNCHANGED <<hloc, error_responses, recording_state, auto_processing_state,
                 mic_whisper_processor, next_session, tpc, tloc, session_db,
                 qvars, appvars, cvars, next_reader, rpc, robj, pstate, nlines,
                 rloc, next_tid, emitted>>

NextFlush ==
  \/ NextAutoFlush
  \/ \E t \in Reqs : \E session_id \in CallerSessionIds : ManualFlush(t, session_id)
  \/ \E t \in Reqs : ManualClear(t)

SpecFlush == InitSession /\ [][NextFlush]_vars

\* C33: no RawTranscript is in the input of more than one MergeJob.
C33_NoTranscriptInTwoJobs ==
  \A i, j \in DOMAIN submitted :
    i # j => Range(submitted[i].transcripts) \cap Range(submitted[j].transcripts) = {}

\* C34: every MergedTranscript has a non-empty list of source transcript ids,
\* each the id of a RawTranscript of the MergedTranscript's own session.
C34_SourcesOfSameSession ==
  \A rec \in processed_db :
    /\ rec.ids # <<>>
    /\ \A k \in DOMAIN rec.ids :
         \E i \in DOMAIN emitted :
           emitted[i].id = rec.ids[k] /\ emitted[i].session_id = rec.session_id

\* ------------------------------------------------- MergeQueue: progress
\* llm_processor.py:80-84: every worker thread is a started thread and runs
\* whenever it can take a step; its external call returns (timeout=30, line
\* 123)
FairQueue == SpecQueue /\ \A w \in Workers : WF_vars(process_queue_worker(w))

\* C35: every job submitted eventually has a terminal event, and while a job
\* is queued a worker thread of its processor is alive.
C35_EveryJobReachesTerminal ==
  /\ \A job_id \in Workers :
       (Len(submitted) >= job_id) ~> (TerminalEvents(job_id) # <<>>)
  /\ [](\A o \in LlmObjs :
          processing_queue[o] # <<>>
            => \E w \in Workers : wobj[w] = o /\ wpc[w] \notin {"unborn", "exit", "dead"})

\* the second of two jobs has its terminal event after the first one failed
C35_Witness ==
  /\ Len(submitted) = 2
  /\ \E e \in Range(cb_log) : e.job_id = 1 /\ e.type = "llm_processing_complete"
  /\ failed_requests[1] >= 1
  /\ TerminalEvents(2) # <<>>

\* ------------------------------------------------ StreamProcessor: restart
\* C36: a successful start after an earlier run leaves the accumulator empty,
\* the sequence counter and the block-parsing state reset, and the statistics
\* counters (total transcripts, error count) at zero.
C36_StartAfterRunIsFresh ==
  [][(ClientStart /\ ret'.ok /\ next_reader > 1)
       => /\ proc'[TheProc].accumulated_transcripts = <<>>
          /\ proc'[TheProc].transcript_counter = 0
          /\ proc'[TheProc].current_transcription_block = <<>>
          /\ ~proc'[TheProc].in_transcription_block
          /\ proc'[TheProc].total_transcripts = 0
          /\ proc'[TheProc].processing_errors = 0]_vars

\* --------------------------------------------------- specification: Stream
\* One consumer of /stream (app.py:257-300) beside a controller that starts
\* and stops recordings. consumer.seen holds the values recording_state has
\* had since the consumer began to build the state snapshot of a heartbeat.

\* app.py:627-633 start_recording: recording_state.update(...), one call
RecordingStarted(sid) ==
  /\ ~recording_state.is_recording
  /\ recording_state' = [is_recording |-> TRUE, session_id |-> sid, start_time |-> sid]
  /\ consumer' = [consumer EXCEPT !.seen = IF consumer.pc \in {"get"} THEN @
                                           ELSE @ \cup {recording_state'}]
  /\ UNCHANGED stream_queue

\* app.py:754-770 stop_recording: recording_state.update(...), one call, then
\* the recording_stopped event
RecordingStopped ==
  /\ recording_state.is_recording
  /\ recording_state' = NotRecording
  /\ consumer' = [consumer EXCEPT !.seen = IF consumer.pc \in {"get"} THEN @
                                           ELSE @ \cup {recording_state'}]
  /\ stream_queue' = Put([type |-> "recording_stopped", id |-> recording_state.session_id])

\* app.py:264-266: stream_queue.get(timeout=1) returns the oldest event and
\* the generator yields it
StreamGetData ==
  /\ consumer.pc = "get"
  /\ stream_queue # <<>>
  /\ stream_queue' = Tail(stream_queue)
  /\ consumer' = [consumer EXCEPT !.yielded = [type |-> Head(stream_queue).type,
                                               id |-> Head(stream_queue).id,
                                               has_sync |-> FALSE,
                                               state_sync |-> NotRecording],
                                  !.yields = (@ + 1) % 2]
  /\ UNCHANGED recording_state

\* app.py:267-275, 286: the queue stayed empty for the timeout: the counter
\* goes up by one; the heartbeat is yielded as it is unless the counter is a
\* multiple of 10
StreamTimeout ==
  /\ consumer.pc = "get"
  /\ stream_queue = <<>>
  /\ LET heartbeat_counter == (consumer.heartbeat_counter + 1) % (2 * HeartbeatSyncEvery)
     IN consumer' =
          IF heartbeat_counter % HeartbeatSyncEvery = 0
          THEN [consumer EXCEPT !.heartbeat_counter = heartbeat_counter,
                                !.seen = {recording_state},
                                !.pc = "is_recording"]
          ELSE [consumer EXCEPT !.heartbeat_counter = heartbeat_counter,
                                !.yielded = [type |-> "heartbeat", id |-> None,
                                             has_sync |-> FALSE,
                                             state_sync |-> NotRecording],
                                !.yields = (@ + 1) % 2]
  /\ UNCHANGED <<recording_state, stream_queue>>

\* app.py:277 "is_recording": recording_state["is_recording"]
ReadIsRecording ==
  /\ consumer.pc = "is_recording"
  /\ consumer' = [consumer EXCEPT !.state_sync.is_recording = recording_state.is_recording,
                                  !.pc = "session_id"]
  /\ UNCHANGED <<recording_state, stream_queue>>

\* app.py:278 "session_id": recording_state["session_id"]
ReadSessionId ==
  /\ consumer.pc = "session_id"
  /\ consumer' = [consumer EXCEPT !.state_sync.session_id = recording_state.session_id,
                                  !.pc = "start_time"]
  /\ UNCHANGED <<recording_state, stream_queue>>

\* app.py:279 "start_time": recording_state["start_time"]
ReadStartTime ==
  /\ consumer.pc = "start_time"
  /\ consumer' = [consumer EXCEPT !.state_sync.start_time = recording_state.start_time,
                                  !.pc = "yield"]
  /\ UNCHANGED <<recording_state, stream_queue>>

\* app.py:281-286: the heartbeat with its state_sync is yielded
StreamYieldSync ==
  /\ consumer.pc = "yield"
  /\ consumer' = [consumer EXCEPT !.yielded = [type |-> "heartbeat", id |-> None,
                                               has_sync |-> TRUE,
                                               state_sync |-> consumer.state_sync],
                                  !.yields = (@ + 1) % 2,
                                  !.state_sync = NotRecording,
                                  !.seen = {},
                                  !.pc = "get"]
  /\ UNCHANGED <<recording_state, stream_queue>>

\* app.py:261-288 event_stream, one step of the generator
event_stream ==
  \/ StreamGetData \/ StreamTimeout
  \/ ReadIsRecording \/ ReadSessionId \/ ReadStartTime \/ StreamYieldSync

NextStream ==
  /\ \/ \E sid \in SessionIds : RecordingStarted(sid)
     \/ RecordingStopped
     \/ event_stream
  /\ UNCHANGED <<cpc, ret, lists, timers, qvars, pvars, processed_db,
                 sessions_waiting_for_summary, summary_launches, llm_processor, raw_db,
                 auto_processing_state, mic_whisper_processor, next_session, hpc,
                 hloc, error_responses, tpc, tloc, session_db>>

SpecStream == InitSession /\ [][NextStream]_vars

\* the generator runs whenever it can take a step: its client keeps reading
FairStream == SpecStream /\ WF_vars(NextStream /\ event_stream)

\* C37: the consumer always yields again; a pull that times out yields one
\* heartbeat; a heartbeat carries a state snapshot exactly when it is the
\* consumer's 10th, 20th, ... heartbeat, and the snapshot is a state the
\* session was in while that heartbeat was made.
C37_HeartbeatsAndStateSync ==
  /\ \A b \in {0, 1} : (consumer.yields = b) ~> (consumer.yields # b)
  /\ [][/\ (StreamTimeout /\ consumer'.pc = "get")
             => /\ consumer'.yields # consumer.yields
                /\ consumer'.yielded.type = "heartbeat"
                /\ ~consumer'.yielded.has_sync
                /\ consumer'.heartbeat_counter % HeartbeatSyncEvery # 0
        /\ (StreamTimeout /\ consumer'.pc # "get")
             => consumer'.heartbeat_counter % HeartbeatSyncEvery = 0
        /\ StreamYieldSync
             => /\ consumer'.yields # consumer.yields
                /\ consumer'.yielded.type = "heartbeat"
                /\ consumer'.yielded.has_sync
                /\ consumer'.yielded.state_sync \in consumer.seen]_vars


\* ------------------------------------------------- specification: StartFail
\* POST /api/start on a machine with a system audio device: the handler makes
\* a microphone processor and a system-audio processor and starts one after
\* the other; every start_streaming call tests the binary and the model file
\* itself (whisper_stream_processor.py:82-88). One request per run reaches the
\* processors; the reader threads of the started processors run beside it,
\* statement by statement.

\* the objects the handler creates at app.py:601 and app.py:611
MicProcessor == 1
SystemProcessor == 2

\* the global system_whisper_processor (app.py:609-616)
system_whisper_processor ==
  IF proc[SystemProcessor].audio_source = "system" THEN SystemProcessor ELSE None

\* app.py:600-651: the processors (the system one when a device for it was
\* found), the LLMProcessor, recording_state, the session row and the
\* recording_started event
StartCreate(t) ==
  /\ hpc[t] = "setup"
  /\ mic_whisper_processor = None
  /\ \E has_system_device \in BOOLEAN :
       proc' = [proc EXCEPT
                  ![MicProcessor] = NewProcessor("microphone", TRUE),
                  ![SystemProcessor] =
                     IF has_system_device THEN NewProcessor("system", TRUE) ELSE @]
  /\ mic_whisper_processor' = MicProcessor
  /\ llm_processor' = hloc[t]
  /\ recording_state' = [is_recording |-> TRUE, session_id |-> hloc[t],
                         start_time |-> hloc[t]]
  /\ session_db' = [session_db EXCEPT ![hloc[t]].created = TRUE]
  /\ stream_queue' = Put([type |-> "recording_started", id |-> hloc[t]])
  /\ hpc' = [hpc EXCEPT ![t] = "mic"]
  /\ UNCHANGED <<next_reader, rpc, robj, pstate, nlines, rloc, next_tid, emitted,
                 auto_processing_state, next_session, hloc, error_responses, tpc, tloc,
                 processed_db, sessions_waiting_for_summary, summary_launches, raw_db,
                 qvars, cvars>>

\* app.py:654: mic_success = mic_whisper_processor.start_streaming(session_id)
StartMic(t) ==
  /\ hpc[t] = "mic"
  /\ \E files_ok \in BOOLEAN :
       /\ start_streaming(mic_whisper_processor, hloc[t], files_ok)
       /\ hpc' = [hpc EXCEPT ![t] =
                    IF start_streaming_result(mic_whisper_processor, files_ok)
                    THEN "system" ELSE "system_mic_failed"]
  /\ UNCHANGED <<recording_state, auto_processing_state, mic_whisper_processor,
                 next_session, hloc, error_responses, tpc, tloc, session_db,
                 qvars, appvars, cvars>>

\* app.py:657-706: the start of the system-audio processor when there is one,
\* then the failure response for a microphone that did not start (lines
\* 668-675), or the timer and the success response (lines 691-702)
StartSystem(t) ==
  /\ hpc[t] \in {"system", "system_mic_failed"}
  /\ IF system_whisper_processor # None
     THEN \E files_ok \in BOOLEAN :
            start_streaming(system_whisper_processor, hloc[t], files_ok)
     ELSE UNCHANGED pvars
  /\ IF hpc[t] = "system_mic_failed"
     THEN /\ recording_state' = [recording_state EXCEPT !.is_recording = FALSE]
          /\ error_responses' = error_responses \cup {"Failed to start"}
          /\ UNCHANGED auto_processing_state
     ELSE /\ auto_processing_state' = start_auto_processing_timer(recording_state)
          /\ UNCHANGED <<recording_state, error_responses>>
  /\ hpc' = [hpc EXCEPT ![t] = "idle"]
  /\ hloc' = [hloc EXCEPT ![t] = None]
  /\ UNCHANGED <<mic_whisper_processor, next_session, tpc, tloc, session_db,
                 qvars, appvars, cvars>>

NextStartFail ==
  \/ \E t \in Reqs : StartRequest(t) \/ StartCreate(t) \/ StartMic(t) \/ StartSystem(t)
  \/ ReaderStep

SpecStartFail == InitSession /\ [][NextStartFail]_vars

\* C38: when a session start fails because the microphone processor cannot
\* be started, then with the failure response the controller is not
\* recording, no processor is running (the system-audio processor of the
\* same request included) and no auto-flush timer is pending.
C38_FailedStartLeavesNothingRunning ==
  [][\A t \in Reqs :
       (hpc[t] = "system_mic_failed" /\ hpc'[t] = "idle")
         => /\ ~recording_state'.is_recording
            /\ \A p \in ProcObjs : ~proc'[p].is_running
            /\ auto_processing_state'.timer = "none"]_vars


\* ------------------------------------------- claims: stopped runs (SpecProc)
\* the run of reader thread r has been stopped and stop_streaming has
\* returned: the client is back from the stop of the run r belongs to, or has
\* since started a later run (which it can only do after r's run was stopped
\* or r has ended)
StoppedRun(r) ==
  /\ rpc[r] # "unborn"
  /\ cpc = "idle"
  /\ \/ r < proc[TheProc].processing_thread
     \/ r = proc[TheProc].processing_thread /\ ret.op = "stop" /\ ret.ok

\* C39: once stop_streaming has returned, the stopped run has no further
\* effect: its subprocess is not running, its reader thread appends and
\* publishes no further RawTranscript, and it does not reset the running
\* flag of a later start.
C39_StoppedRunHasNoEffect ==
  [][\A r \in Readers :
       StoppedRun(r)
         => /\ pstate'[r] # "running"
            /\ ~R_emit(r)
            /\ (R_finally(r) /\ proc[TheProc].processing_thread # r)
                 => proc'[TheProc].is_running = proc[TheProc].is_running]_vars

====
